---- MODULE Spec2Model ----
(***************************************************************************)
(* Path finding of the in-store navigation engine.                         *)
(*                                                                         *)
(*   src/app/pathfinding.py         AStar.find_path, reconstruct_path,     *)
(*                                  find_closest_walkable_node             *)
(*   src/app/routes/cart_routes.py  astar, heuristic, is_walkable over the *)
(*                                  process-wide CENTERLINE_SET            *)
(*                                  build_centerline_graph,                *)
(*                                  get_shortest_path_route                *)
(*   src/app/routing_utils.py       get_direction_change, enrich_path,     *)
(*                                  get_section_for_point                  *)
(*                                                                         *)
(* Numbers.  AStar works on float costs: a step costs 1 or sqrt(2) and the *)
(* heuristic is a Euclidean distance.  They are modelled in fixed point,   *)
(* Scale units per cell side, each square root rounded down once and the   *)
(* sums exact; the order of two costs differs from the float order only   *)
(* where the two are equal as real numbers.  Coordinates handed to         *)
(* find_path are floats that int()                                         *)
(* truncates; they are modelled in half cells.  The centerline search      *)
(* works on coordinates rounded to two decimals; they are modelled in      *)
(* hundredths, so GRID_RES = 0.05 is 5.                                    *)
(***************************************************************************)
EXTENDS Integers, Sequences, FiniteSets, TLC

\* ------------------------------------------------------------------ bounds
Height == 3          \* rows of the occupancy grid
Width == 3           \* columns of the occupancy grid
MaxBlocked == 2      \* at most this many blocked cells in a grid
Scale == 1000        \* fixed-point units per unit of float cost
CLCols == 4          \* columns of the lattice of centerline points
CLRows == 3          \* rows of the lattice of centerline points
MaxHoles == 2        \* at most this many lattice points are not walkable
EmptySide == 10      \* side of the obstacle-free square grid
WideWidth == Width + 2   \* columns of the wider grids
FbCells == 9         \* cells of the largest grid handed to the fallback search alone
DbPoints == 2        \* obstacle corners are taken from DbPoints + 1 points
MaxSections == 2     \* at most this many obstacles in a list
RtCols == 3          \* columns of the lattice of a routing request
RtRows == 2          \* rows of the lattice of a routing request
MaxDest == 3         \* at most this many destinations in a request
DetourRows == 6      \* rows of the grid with the walled detour
DetourCols == 4      \* columns of the grid with the walled detour
DetourExtra == 1     \* at most this many blocked cells besides the walls
EnCols == 3          \* columns of the lattice the points of an enriched path lie on
EnRows == 2          \* rows of that lattice
MaxPath == 3         \* at most this many points in a path handed to enrich_path
MaxShift == 2        \* aisles are shifted by at most this many hundredths

\* --------------------------------------------------------------- constants
Inf == 2000000000    \* float('inf')
GRID_RES == 5        \* 0.05, in hundredths
NoneVal == << >>     \* Python None (no cell, no path)

VARIABLES
    grid,        \* AStar.grid: [cell -> 0 | 1], cell = <<row, col>>
    height,      \* AStar.height
    width,       \* AStar.width
    start,       \* find_path argument start = <<x, y>> in half cells
    end,         \* find_path argument end   = <<x, y>> in half cells
    start_node,  \* <<row, col>>
    end_node,    \* <<row, col>>, replaced by the fallback cell when blocked
    open_set,    \* heap content: set of <<f, node>>
    came_from,   \* [cell -> cell | NoneVal]; NoneVal = key absent
    g_score,     \* [cell -> Nat]
    f_score,     \* [cell -> Nat]
    result,      \* returned value: NoneVal or a sequence of cells
    pc,          \* "idle" | "loop" | "cl_loop" | "done"
    CENTERLINE_SET,  \* cart_routes.CENTERLINE_SET: set of <<x, y>> in hundredths
    goal_node,   \* astar argument goal_node
    visit_order, \* the cells the while loop of a search has popped, oldest first
    target_node, \* find_closest_walkable_node argument target_node
    sections,    \* create_grid_from_db argument: sequence of [x1, y1, x2, y2], half units
    max_x,       \* create_grid_from_db argument max_x, half units
    max_y,       \* create_grid_from_db argument max_y, half units
    resolution,  \* create_grid_from_db argument resolution
    centerline_points,  \* what build_centerline_graph computes from the sections read
    original_start,     \* the cart's last location <<x, y>> in hundredths, or NoneVal
    destinations,       \* the product ids of the request body
    ordered_targets,    \* get_shortest_path_route: ordered_targets, as product ids
    path_segments,      \* get_shortest_path_route: path_segments
    current_path_start, \* get_shortest_path_route: current_path_start
    snapped_goal,       \* get_shortest_path_route: snapped_goal of the last pass
    segment,            \* get_shortest_path_route: segment of the last pass
    route_i,            \* position of the for loop in ordered_targets
    response,           \* the response returned: NoneVal or [status, start, segments]
    requests,           \* the requests served at the same time: for each its position,
                        \* what it read and the locals of its calls
    merged_path,        \* enrich_path argument path: sequence of [x, y]
    product_locations,  \* enrich_path argument: product id -> [x_coord, y_coord, section_id]
    enriched_path,      \* what enrich_path returned, NoneVal before the call
    targets_left,       \* get_shortest_path_route: targets while the ordering loop runs
    sort_pos,           \* get_shortest_path_route: current_pos_for_sort in that loop
    observed,           \* what the readers of CENTERLINE_SET got, oldest first, each with
                        \* the local set build_centerline_graph held at that moment
    previous_set,       \* the walkable set published before the build that is running
    adds_left           \* build_centerline_graph: the arguments of the add calls to come

vars == <<grid, height, width, start, end, start_node, end_node, open_set,
          came_from, g_score, f_score, result, pc, CENTERLINE_SET, goal_node,
          visit_order, target_node, sections, max_x, max_y, resolution,
          centerline_points, original_start, destinations, ordered_targets,
          path_segments, current_path_start, snapped_goal, segment, route_i,
          response, requests, merged_path, product_locations,
          enriched_path, targets_left, sort_pos, observed, previous_set, adds_left>>

\* what AStar.find_path never touches
clVars == <<CENTERLINE_SET, goal_node>>

\* what the centerline astar never touches
gridVars == <<grid, height, width, start, end, end_node, f_score>>

\* the arguments of create_grid_from_db
dbVars == <<sections, max_x, max_y, resolution>>

\* the request and the locals of get_shortest_path_route
routeVars == <<centerline_points, original_start, destinations, ordered_targets,
               path_segments, current_path_start, snapped_goal, segment, route_i,
               response>>

\* the arguments and the result of enrich_path
enrichVars == <<merged_path, product_locations, enriched_path>>

\* the locals of the ordering loop, and what the readers of the walkable set saw
stepVars == <<targets_left, sort_pos, observed, previous_set, adds_left>>

\* what neither search touches
auxVars == <<target_node, dbVars, routeVars, requests, enrichVars, stepVars>>

\* ------------------------------------------------------------- arithmetic
Abs(x) == IF x < 0 THEN -x ELSE x
Max(a, b) == IF a >= b THEN a ELSE b
Min(a, b) == IF a <= b THEN a ELSE b

\* floor(sqrt(n)) for a small natural n
ISqrt(n) == CHOOSE q \in 0..n : q * q <= n /\ (q + 1) * (q + 1) > n

\* floor(sqrt(n)) by Newton's iteration from an upper estimate x
RECURSIVE NewtonSqrt(_, _)
NewtonSqrt(n, x) ==
    LET y == (x + n \div x) \div 2
    IN  IF y >= x THEN x ELSE NewtonSqrt(n, y)

\* floor(sqrt(d2) * Scale): the float square root in fixed point
FixSqrt(d2) ==
    IF d2 = 0 THEN 0 ELSE NewtonSqrt(d2 * Scale * Scale, (ISqrt(d2) + 1) * Scale)

\* largest squared distance between two cells of any grid of the model
MaxSide == Max(Max(Height, WideWidth), EmptySide)

MaxD2 == 2 * MaxSide * MaxSide

SqrtTable == [d2 \in 0..MaxD2 |-> FixSqrt(d2)]

\* AStar.heuristic(a, b): Euclidean distance
heuristic(a, b) ==
    SqrtTable[(a[1] - b[1]) * (a[1] - b[1]) + (a[2] - b[2]) * (a[2] - b[2])]

\* Python int() on a float given in half units: truncation toward zero
IntTrunc(v) == IF v >= 0 THEN v \div 2 ELSE -((-v) \div 2)

\* ------------------------------------------------------------------ grids
Cells(h, w) == (0..(h - 1)) \X (0..(w - 1))

InGrid(n, h, w) == 0 <= n[1] /\ n[1] < h /\ 0 <= n[2] /\ n[2] < w

\* the subsets of S with at most k elements
RECURSIVE SubsetsUpTo(_, _)
SubsetsUpTo(S, k) ==
    IF k = 0 THEN { {} }
    ELSE LET P == SubsetsUpTo(S, k - 1)
         IN  P \cup { A \cup {x} : A \in P, x \in S }

\* every h x w grid with at most k blocked cells
Grids(h, w, k) ==
    { [c \in Cells(h, w) |-> IF c \in B THEN 1 ELSE 0] :
        B \in SubsetsUpTo(Cells(h, w), k) }

\* Points handed to find_path are <<x, y>> in half cells.
\* The centre coordinates of the cell <<row, col>>:
PointOf(c) == <<2 * c[2], 2 * c[1]>>

Corners(h, w) == { <<0, 0>>, <<0, w - 1>>, <<h - 1, 0>>, <<h - 1, w - 1>> }

\* start points: the four corner cells, the point (-0.5, -0.5), and two
\* points off the grid, (-1.0, 0.0) and (0.0, h)
StartPoints(h, w) ==
    { PointOf(c) : c \in Corners(h, w) } \cup { <<-1, -1>>, <<-2, 0>>, <<0, 2 * h>> }

\* end points: every cell, and two points off the grid, (w, 0.0) and (0.0, -1.0)
EndPoints(h, w) ==
    { PointOf(c) : c \in Cells(h, w) } \cup { <<2 * w, 0>>, <<0, -2>> }

\* --------------------------------------------- find_closest_walkable_node
Dirs4 == << <<0, 1>>, <<0, -1>>, <<1, 0>>, <<-1, 0>> >>

\* the for loop over the four directions for the cell <<y, x>> just popped,
\* from direction i on; yields [found, q, visited]
RECURSIVE ScanDirs(_, _, _, _, _, _, _)
ScanDirs(g, h, w, cell, i, q, visited) ==
    IF i > Len(Dirs4) THEN [found |-> NoneVal, q |-> q, visited |-> visited]
    ELSE LET n == <<cell[1] + Dirs4[i][1], cell[2] + Dirs4[i][2]>>
         IN  IF InGrid(n, h, w) /\ n \notin visited
             THEN IF g[n] = 0
                  THEN [found |-> n, q |-> q, visited |-> visited]
                  ELSE ScanDirs(g, h, w, cell, i + 1, Append(q, n), visited \cup {n})
             ELSE ScanDirs(g, h, w, cell, i + 1, q, visited)

\* the while loop taking the newest entry of the deque instead of the oldest
RECURSIVE BfsLoop_Stack(_, _, _, _, _)
BfsLoop_Stack(g, h, w, q, visited) ==
    IF q = << >> THEN NoneVal
    ELSE LET s == ScanDirs(g, h, w, q[Len(q)], 1, SubSeq(q, 1, Len(q) - 1), visited)
         IN  IF s.found # NoneVal THEN s.found
             ELSE BfsLoop_Stack(g, h, w, s.q, s.visited)

\* the while loop over the deque
RECURSIVE BfsLoop(_, _, _, _, _)
BfsLoop(g, h, w, q, visited) ==
    IF q = << >> THEN NoneVal
    ELSE LET s == ScanDirs(g, h, w, Head(q), 1, Tail(q), visited)
         IN  IF s.found # NoneVal THEN s.found
             ELSE BfsLoop(g, h, w, s.q, s.visited)

\* the search handing back its target when the deque empties
find_closest_walkable_node_NeverNone(g, h, w, t) ==
    IF g[t] = 0 THEN t
    ELSE IF BfsLoop(g, h, w, <<t>>, {t}) = NoneVal THEN t
    ELSE BfsLoop(g, h, w, <<t>>, {t})

find_closest_walkable_node(g, h, w, t) ==
    IF g[t] = 0 THEN t
    ELSE BfsLoop(g, h, w, <<t>>, {t})

\* ------------------------------------------------------- reconstruct_path
RECURSIVE WalkBack(_, _, _)
WalkBack(cf, current, path) ==
    IF cf[current] # NoneVal
    THEN WalkBack(cf, cf[current], Append(path, current))
    ELSE Append(path, current)

Reverse(s) == [i \in 1..Len(s) |-> s[Len(s) + 1 - i]]

\* reconstruct_path without the final reversal
reconstruct_path_Unreversed(cf, current) == WalkBack(cf, current, << >>)

reconstruct_path(cf, current) == Reverse(WalkBack(cf, current, << >>))

\* ---------------------------------------------------------------- the heap
\* Python tuple order on heap entries (f, (row, col))
EntryLess(a, b) ==
    \/ a[1] < b[1]
    \/ a[1] = b[1] /\ a[2][1] < b[2][1]
    \/ a[1] = b[1] /\ a[2][1] = b[2][1] /\ a[2][2] < b[2][2]

\* heapq.heappop: the least entry
HeapMin(os) == CHOOSE e \in os : \A o \in os : o = e \/ EntryLess(e, o)

\* [i[1] for i in open_set]
OpenNodes(os) == { e[2] : e \in os }

\* ------------------------------------------------------- AStar.find_path
\* only the four axis directions
Dirs8_FourOnly == << <<0, 1>>, <<0, -1>>, <<1, 0>>, <<-1, 0>> >>

\* a direction list whose first entry jumps over a cell
Dirs8_Jump == << <<0, 2>>, <<0, -1>>, <<1, 0>>, <<-1, 0>>,
                 <<1, 1>>, <<1, -1>>, <<-1, 1>>, <<-1, -1>> >>

Dirs8 == << <<0, 1>>, <<0, -1>>, <<1, 0>>, <<-1, 0>>,
            <<1, 1>>, <<1, -1>>, <<-1, 1>>, <<-1, -1>> >>

\* tentative_g_score
Tentative(gs, current, neighbor) == gs[current] + heuristic(current, neighbor)

\* a test that also takes an equal g for an improvement
Improves_OrEqual(tentative, known) == tentative <= known

\* the test of line 52: a strict improvement of the neighbour's g
Improves(tentative, known) == tentative < known

\* the neighbour test with an off-by-one lower bound
Passable_StrictBounds(g, h, w, n) ==
    0 < n[1] /\ n[1] < h /\ 0 < n[2] /\ n[2] < w /\ g[n] # 1

\* the neighbour test without the blocked-cell check of lines 47-48
Passable_IgnoreBlocked(g, h, w, n) == InGrid(n, h, w)

\* the test of lines 46-48: neighbour inside the grid and not blocked
Passable(g, h, w, n) == InGrid(n, h, w) /\ g[n] # 1

\* the for loop of lines 43-57 from direction i on; st holds the search's
\* bookkeeping [open_set, came_from, g_score, f_score]
RECURSIVE RelaxLoop(_, _, _, _, _, _, _)
RelaxLoop(g, h, w, current, goal, i, st) ==
    IF i > Len(Dirs8) THEN st
    ELSE LET neighbor == <<current[1] + Dirs8[i][1], current[2] + Dirs8[i][2]>>
         IN  IF ~Passable(g, h, w, neighbor)
             THEN RelaxLoop(g, h, w, current, goal, i + 1, st)
             ELSE LET t == Tentative(st.g_score, current, neighbor)
                      f == t + heuristic(neighbor, goal)
                  IN  IF Improves(t, st.g_score[neighbor])
                      THEN RelaxLoop(g, h, w, current, goal, i + 1,
                             [open_set  |-> IF neighbor \notin OpenNodes(st.open_set)
                                            THEN st.open_set \cup { <<f, neighbor>> }
                                            ELSE st.open_set,
                              came_from |-> [st.came_from EXCEPT ![neighbor] = current],
                              g_score   |-> [st.g_score EXCEPT ![neighbor] = t],
                              f_score   |-> [st.f_score EXCEPT ![neighbor] = f]])
                      ELSE RelaxLoop(g, h, w, current, goal, i + 1, st)

\* (row, col) = (int(y), int(x)) of a point <<x, y>>
NodeOf(p) == <<IntTrunc(p[2]), IntTrunc(p[1])>>

\* lines 15-27: NoneVal when the call returns None before searching,
\* otherwise the end node the search runs to
ResolveEnd(g, h, w, sn, en) ==
    IF ~InGrid(sn, h, w) THEN NoneVal
    ELSE IF g[sn] = 1 THEN NoneVal
    ELSE IF ~InGrid(en, h, w) THEN NoneVal
    ELSE IF g[en] = 1 THEN find_closest_walkable_node(g, h, w, en)
    ELSE en

Idle ==
    /\ start = NoneVal /\ end = NoneVal
    /\ start_node = NoneVal /\ end_node = NoneVal
    /\ open_set = {}
    /\ came_from = << >> /\ g_score = << >> /\ f_score = << >>
    /\ result = NoneVal
    /\ pc = "idle"
    /\ goal_node = NoneVal
    /\ visit_order = << >>

\* nothing built and nothing asked outside the two searches
DbIdle == sections = << >> /\ max_x = 0 /\ max_y = 0 /\ resolution = 0

\* no request
RouteIdle ==
    /\ centerline_points = {} /\ original_start = NoneVal /\ destinations = << >>
    /\ ordered_targets = << >> /\ path_segments = << >>
    /\ current_path_start = NoneVal /\ snapped_goal = NoneVal /\ segment = << >>
    /\ route_i = 0 /\ response = NoneVal

\* enrich_path not called
EnrichIdle == merged_path = << >> /\ product_locations = << >> /\ enriched_path = NoneVal

\* no ordering loop under way, nothing read from the walkable set
StepIdle ==
    /\ targets_left = << >> /\ sort_pos = NoneVal
    /\ observed = << >> /\ previous_set = {} /\ adds_left = << >>

AuxIdle ==
    target_node = NoneVal /\ DbIdle /\ RouteIdle /\ requests = << >> /\ EnrichIdle /\ StepIdle

\* AStar(grid) on every small grid
Init ==
    /\ height \in 1..Height /\ width = Width
    /\ grid \in Grids(height, width, MaxBlocked)
    /\ CENTERLINE_SET = {}
    /\ Idle /\ AuxIdle

\* AStar(grid) on the wider grids
InitWide ==
    /\ height \in 1..Height /\ width = WideWidth
    /\ grid \in Grids(height, width, MaxBlocked)
    /\ CENTERLINE_SET = {}
    /\ Idle /\ AuxIdle

\* AStar(grid) on the square grid without obstacles
InitEmpty ==
    /\ height = EmptySide /\ width = EmptySide
    /\ grid \in Grids(EmptySide, EmptySide, 0)
    /\ CENTERLINE_SET = {}
    /\ Idle /\ AuxIdle

\* find_path(start, end) returning None at lines 15-26
FindPathReject ==
    /\ pc = "idle" /\ height > 0
    /\ \E s \in StartPoints(height, width), e \in EndPoints(height, width) :
        /\ ResolveEnd(grid, height, width, NodeOf(s), NodeOf(e)) = NoneVal
        /\ start' = s /\ end' = e
        /\ start_node' = NodeOf(s) /\ end_node' = NodeOf(e)
    /\ result' = NoneVal
    /\ pc' = "done"
    /\ UNCHANGED <<grid, height, width, open_set, came_from, g_score, f_score,
                   visit_order>>
    /\ UNCHANGED clVars
    /\ UNCHANGED auxVars

\* find_path(start, end) up to the while loop, lines 12-35
FindPathBegin ==
    /\ pc = "idle" /\ height > 0
    /\ \E s \in StartPoints(height, width), e \in EndPoints(height, width) :
        LET sn == NodeOf(s)
            en == ResolveEnd(grid, height, width, sn, NodeOf(e))
        IN  /\ en # NoneVal
            /\ start' = s /\ end' = e
            /\ start_node' = sn /\ end_node' = en
            /\ open_set' = { <<0, sn>> }
            /\ came_from' = [c \in Cells(height, width) |-> NoneVal]
            /\ g_score' = [c \in Cells(height, width) |-> IF c = sn THEN 0 ELSE Inf]
            /\ f_score' = [c \in Cells(height, width) |->
                              IF c = sn THEN heuristic(sn, en) ELSE Inf]
    /\ visit_order' = << >>
    /\ pc' = "loop"
    /\ UNCHANGED <<grid, height, width, result>>
    /\ UNCHANGED clVars
    /\ UNCHANGED auxVars

\* one pass of the while loop that pops the end node, lines 38-41
PopGoal ==
    /\ pc = "loop" /\ open_set # {}
    /\ HeapMin(open_set)[2] = end_node
    /\ result' = reconstruct_path(came_from, end_node)
    /\ open_set' = open_set \ { HeapMin(open_set) }
    /\ visit_order' = Append(visit_order, end_node)
    /\ pc' = "done"
    /\ UNCHANGED <<grid, height, width, start, end, start_node, end_node,
                   came_from, g_score, f_score>>
    /\ UNCHANGED clVars
    /\ UNCHANGED auxVars

\* one pass of the while loop that expands the popped cell, lines 38-57
Expand ==
    /\ pc = "loop" /\ open_set # {}
    /\ HeapMin(open_set)[2] # end_node
    /\ LET top == HeapMin(open_set)
           st == RelaxLoop(grid, height, width, top[2], end_node, 1,
                           [open_set  |-> open_set \ {top},
                            came_from |-> came_from,
                            g_score   |-> g_score,
                            f_score   |-> f_score])
       IN  /\ open_set' = st.open_set
           /\ came_from' = st.came_from
           /\ g_score' = st.g_score
           /\ f_score' = st.f_score
           /\ visit_order' = Append(visit_order, top[2])
    /\ UNCHANGED <<grid, height, width, start, end, start_node, end_node, result, pc>>
    /\ UNCHANGED clVars
    /\ UNCHANGED auxVars

\* the while loop ends on an empty heap, line 58
Exhausted ==
    /\ pc = "loop" /\ open_set = {}
    /\ result' = NoneVal
    /\ pc' = "done"
    /\ UNCHANGED <<grid, height, width, start, end, start_node, end_node,
                   open_set, came_from, g_score, f_score, visit_order>>
    /\ UNCHANGED clVars
    /\ UNCHANGED auxVars

\* ------------------------------------------ cart_routes.py: centerline astar
\* the lattice of points GRID_RES apart, in hundredths
Lattice(cols, rows) ==
    { <<GRID_RES * i, GRID_RES * j>> : i \in 0..(cols - 1), j \in 0..(rows - 1) }

LatticeCorners(cols, rows) ==
    { <<0, 0>>, <<GRID_RES * (cols - 1), 0>>, <<0, GRID_RES * (rows - 1)>>,
      <<GRID_RES * (cols - 1), GRID_RES * (rows - 1)>> }

\* is_walkable(x, y); x and y are already multiples of 0.01
is_walkable(S, x, y) == <<x, y>> \in S

\* heuristic(a, b) of cart_routes.py: Manhattan distance
cl_heuristic(a, b) == Abs(a[1] - b[1]) + Abs(a[2] - b[2])

\* dict.get(key, float('inf'))
Get(d, k) == IF k \in DOMAIN d THEN d[k] ELSE Inf

\* d[k] = v on a dict
Put(d, k, v) == [x \in (DOMAIN d) \cup {k} |-> IF x = k THEN v ELSE d[x]]

ClDirs == << <<GRID_RES, 0>>, <<-GRID_RES, 0>>, <<0, GRID_RES>>, <<0, -GRID_RES>> >>

\* a step that costs nothing
StepCost_Free == GRID_RES - GRID_RES

\* the step cost added at line 116
StepCost == GRID_RES

\* a test that also takes an equal g for an improvement
ClImproves_OrEqual(tentative, known) == tentative <= known

\* the test of line 118: a strict improvement of the neighbour's g
ClImproves(tentative, known) == tentative < known

\* the for loop of lines 110-122 from direction i on
RECURSIVE ClRelaxLoop(_, _, _, _, _)
ClRelaxLoop(S, current, goal, i, st) ==
    IF i > Len(ClDirs) THEN st
    ELSE LET n == <<current[1] + ClDirs[i][1], current[2] + ClDirs[i][2]>>
         IN  IF ~is_walkable(S, n[1], n[2])
             THEN ClRelaxLoop(S, current, goal, i + 1, st)
             ELSE LET tentative_g == Get(st.g_score, current) + StepCost
                  IN  IF ClImproves(tentative_g, Get(st.g_score, n))
                      THEN ClRelaxLoop(S, current, goal, i + 1,
                             [open_set  |-> st.open_set \cup
                                              { <<tentative_g + cl_heuristic(n, goal), n>> },
                              came_from |-> Put(st.came_from, n, current),
                              g_score   |-> Put(st.g_score, n, tentative_g)])
                      ELSE ClRelaxLoop(S, current, goal, i + 1, st)

\* lines 103-107: follow came_from from the goal and reverse
RECURSIVE ClWalkBack(_, _, _)
ClWalkBack(cf, current, path) ==
    IF current \in DOMAIN cf
    THEN ClWalkBack(cf, cf[current], Append(path, cf[current]))
    ELSE path

\* the reconstruction without the initial path = [current]
cl_reconstruct_NoGoal(cf, current) == Reverse(ClWalkBack(cf, current, << >>))

cl_reconstruct(cf, current) == Reverse(ClWalkBack(cf, current, <<current>>))

\* the process-wide walkable set: the lattice without a few points
InitCenterline ==
    /\ CENTERLINE_SET \in
         { Lattice(CLCols, CLRows) \ Hl : Hl \in SubsetsUpTo(Lattice(CLCols, CLRows), MaxHoles) }
    /\ grid = << >> /\ height = 0 /\ width = 0
    /\ Idle /\ AuxIdle

\* the callers pass nodes of CENTERLINE_SET, or None when nothing could be snapped
AstarStarts == (CENTERLINE_SET \cap LatticeCorners(CLCols, CLRows)) \cup {NoneVal}

AstarGoals == CENTERLINE_SET \cup {NoneVal}

\* astar(start_node, goal_node) returning [] at lines 91-92
AstarReject ==
    /\ pc = "idle" /\ height = 0
    /\ \E s \in AstarStarts, g \in AstarGoals :
        /\ s = NoneVal \/ g = NoneVal
        /\ start_node' = s /\ goal_node' = g
    /\ result' = << >>
    /\ pc' = "done"
    /\ UNCHANGED <<open_set, came_from, g_score, CENTERLINE_SET, visit_order>>
    /\ UNCHANGED gridVars
    /\ UNCHANGED auxVars

\* astar(start_node, goal_node) up to the while loop, lines 94-97
AstarBegin ==
    /\ pc = "idle" /\ height = 0
    /\ \E s \in AstarStarts, g \in AstarGoals :
        /\ s # NoneVal /\ g # NoneVal
        /\ start_node' = s /\ goal_node' = g
        /\ open_set' = { <<0, s>> }
        /\ g_score' = Put(<< >>, s, 0)
    /\ came_from' = << >>
    /\ visit_order' = << >>
    /\ pc' = "cl_loop"
    /\ UNCHANGED <<result, CENTERLINE_SET>>
    /\ UNCHANGED gridVars
    /\ UNCHANGED auxVars

\* one pass of the while loop that pops the goal, lines 100-107
AstarPopGoal ==
    /\ pc = "cl_loop" /\ open_set # {}
    /\ HeapMin(open_set)[2] = goal_node
    /\ result' = cl_reconstruct(came_from, goal_node)
    /\ open_set' = open_set \ { HeapMin(open_set) }
    /\ visit_order' = Append(visit_order, goal_node)
    /\ pc' = "done"
    /\ UNCHANGED <<start_node, goal_node, came_from, g_score, CENTERLINE_SET>>
    /\ UNCHANGED gridVars
    /\ UNCHANGED auxVars

\* one pass of the while loop that expands the popped node, lines 100-122
AstarExpand ==
    /\ pc = "cl_loop" /\ open_set # {}
    /\ HeapMin(open_set)[2] # goal_node
    /\ LET top == HeapMin(open_set)
           st == ClRelaxLoop(CENTERLINE_SET, top[2], goal_node, 1,
                             [open_set  |-> open_set \ {top},
                              came_from |-> came_from,
                              g_score   |-> g_score])
       IN  /\ open_set' = st.open_set
           /\ came_from' = st.came_from
           /\ g_score' = st.g_score
           /\ visit_order' = Append(visit_order, top[2])
    /\ UNCHANGED <<start_node, goal_node, result, pc, CENTERLINE_SET>>
    /\ UNCHANGED gridVars
    /\ UNCHANGED auxVars

\* the while loop ends on an empty heap, line 123
AstarExhausted ==
    /\ pc = "cl_loop" /\ open_set = {}
    /\ result' = << >>
    /\ pc' = "done"
    /\ UNCHANGED <<start_node, goal_node, open_set, came_from, g_score, CENTERLINE_SET,
                   visit_order>>
    /\ UNCHANGED gridVars
    /\ UNCHANGED auxVars

NextCenterline ==
    AstarReject \/ AstarBegin \/ AstarPopGoal \/ AstarExpand \/ AstarExhausted

Next == FindPathReject \/ FindPathBegin \/ PopGoal \/ Expand \/ Exhausted

Spec == Init /\ [][Next]_vars

\* the small grids and the large obstacle-free grid
InitWithEmpty == Init \/ InitEmpty

SpecWithEmpty == InitWithEmpty /\ [][Next]_vars

SpecWide == InitWide /\ [][Next]_vars

SpecCenterline == InitCenterline /\ [][NextCenterline]_vars

\* both path finders side by side
InitBoth == Init \/ InitCenterline

NextBoth == Next \/ NextCenterline

SpecBoth == InitBoth /\ [][NextBoth]_vars

\* ------------------------------------------------ a grid with a walled detour
\* walls that leave two ways from the bottom right corner to the top left one:
\* a diagonal one into a dead end and a straight one along the right edge
DetourWalls ==
    { <<1, 1>>, <<2, 0>>, <<2, 1>>, <<3, 0>>, <<3, 2>>, <<4, 0>>, <<4, 1>>, <<5, 2>> }

\* AStar(grid) on the walled grid, a few more cells blocked
InitDetour ==
    /\ height = DetourRows /\ width = DetourCols
    /\ grid \in { [c \in Cells(height, width) |-> IF c \in DetourWalls \cup B THEN 1 ELSE 0] :
                   B \in SubsetsUpTo(Cells(height, width), DetourExtra) }
    /\ CENTERLINE_SET = {}
    /\ Idle /\ AuxIdle

SpecDetour == InitDetour /\ [][Next]_vars

\* AStar(grid) on the walled grid itself
InitWalled ==
    /\ height = DetourRows /\ width = DetourCols
    /\ grid = [c \in Cells(height, width) |-> IF c \in DetourWalls THEN 1 ELSE 0]
    /\ CENTERLINE_SET = {}
    /\ Idle /\ AuxIdle

\* the small grids and the walled grid
InitWithWalls == Init \/ InitWalled

SpecWithWalls == InitWithWalls /\ [][Next]_vars

\* ------------------------------------ find_closest_walkable_node on its own
\* every grid of at most FbCells cells, any number of them blocked
InitFallback ==
    /\ height \in 1..Height /\ width \in 1..FbCells
    /\ height * width <= FbCells
    /\ grid \in { [c \in Cells(height, width) |-> IF c \in B THEN 1 ELSE 0] :
                   B \in SUBSET Cells(height, width) }
    /\ CENTERLINE_SET = {}
    /\ Idle /\ AuxIdle

\* find_closest_walkable_node(grid, target_node), lines 71-92
FindClosest ==
    /\ pc = "idle" /\ height > 0
    /\ \E t \in Cells(height, width) :
        /\ target_node' = t
        /\ result' = find_closest_walkable_node(grid, height, width, t)
    /\ pc' = "fb_done"
    /\ UNCHANGED <<grid, height, width, start, end, start_node, end_node,
                   open_set, came_from, g_score, f_score>>
    /\ UNCHANGED clVars
    /\ UNCHANGED <<visit_order, dbVars, routeVars, requests, enrichVars, stepVars>>

NextFallback == FindClosest \/ Next

SpecFallback == InitFallback /\ [][NextFallback]_vars

\* ------------------------------------------------------ create_grid_from_db
\* int(v * resolution) for a float v given in half units
Scaled(v, res) == IntTrunc(v * res)

\* the last index of a range that stops one short
RangeLast_Short(hi) == hi - 1

\* the last index of range(lo, hi + 1)
RangeLast(hi) == hi

\* the first index of a range taken from the first corner as it is
RangeFirst_Unordered(a, b) == a

\* the first index of range(min(a, b), ...)
RangeFirst(a, b) == Min(a, b)

\* the loops of lines 103-106: every <<r, c>> of the two ranges that passes
\* the test of line 105 is set to 1
MarkRows(g, h, w, rfirst, rlast, cfirst, clast) ==
    [cell \in DOMAIN g |->
        IF \E r \in rfirst..rlast, c \in cfirst..clast :
              0 <= r /\ r < h /\ 0 <= c /\ c < w /\ cell = <<r, c>>
        THEN 1 ELSE g[cell]]

\* the loop of line 99 from section i on
RECURSIVE MarkSections(_, _, _, _, _, _)
MarkSections(g, h, w, secs, i, res) ==
    IF i > Len(secs) THEN g
    ELSE LET x1 == Scaled(secs[i].x1, res)
             y1 == Scaled(secs[i].y1, res)
             x2 == Scaled(secs[i].x2, res)
             y2 == Scaled(secs[i].y2, res)
         IN  MarkSections(MarkRows(g, h, w, RangeFirst(y1, y2), RangeLast(Max(y1, y2)),
                                   RangeFirst(x1, x2), RangeLast(Max(x1, x2))),
                          h, w, secs, i + 1, res)

grid_width(mx, res) == Scaled(mx, res) + 1

grid_height(my, res) == Scaled(my, res) + 1

create_grid_from_db(secs, mx, my, res) ==
    MarkSections([c \in Cells(grid_height(my, res), grid_width(mx, res)) |-> 0],
                 grid_height(my, res), grid_width(mx, res), secs, 1, res)

\* obstacle corners <<x, y>> in half units: (-0.5, 0.0), (1.0, 1.0),
\* (2.5, 0.0), (4.0, 1.0), ...
CornerPoints == { <<3 * i - 1, 2 * (i % 2)>> : i \in 0..DbPoints }

\* the obstacles: any two corner points, in either order
Rects ==
    { [x1 |-> a[1], y1 |-> a[2], x2 |-> b[1], y2 |-> b[2]] :
        a \in CornerPoints, b \in CornerPoints }

\* the lists of at most k obstacles
RECURSIVE SectionLists(_)
SectionLists(k) ==
    IF k = 0 THEN { << >> }
    ELSE LET P == SectionLists(k - 1)
         IN  P \cup { Append(l, r) : l \in { q \in P : Len(q) = k - 1 }, r \in Rects }

\* the arguments of one create_grid_from_db call: a plan of extent 1.5 x 1.0
\* at one or two cells per unit
InitDb ==
    /\ sections \in SectionLists(MaxSections)
    /\ max_x = 3 /\ max_y = 2
    /\ resolution \in {1, 2}
    /\ grid = << >> /\ height = 0 /\ width = 0
    /\ CENTERLINE_SET = {}
    /\ target_node = NoneVal /\ requests = << >>
    /\ Idle /\ RouteIdle /\ EnrichIdle /\ StepIdle

\* create_grid_from_db(sections, max_x, max_y, resolution), lines 94-108;
\* height and width are len(grid) and len(grid[0])
CreateGrid ==
    /\ pc = "idle" /\ resolution > 0
    /\ grid' = create_grid_from_db(sections, max_x, max_y, resolution)
    /\ height' = grid_height(max_y, resolution)
    /\ width' = grid_width(max_x, resolution)
    /\ pc' = "grid_done"
    /\ UNCHANGED <<start, end, start_node, end_node, open_set, came_from,
                   g_score, f_score, result, target_node>>
    /\ UNCHANGED clVars
    /\ UNCHANGED <<visit_order, dbVars, routeVars, requests, enrichVars, stepVars>>

NextDb == CreateGrid

SpecDb == InitDb /\ [][NextDb]_vars

\* --------------------------------- cart_routes.py: get_shortest_path_route
\* the while loop of astar, lines 99-123, run to its return
RECURSIVE AstarLoop(_, _, _)
AstarLoop(S, goal, st) ==
    IF st.open_set = {} THEN << >>
    ELSE LET top == HeapMin(st.open_set)
         IN  IF top[2] = goal THEN cl_reconstruct(st.came_from, goal)
             ELSE AstarLoop(S, goal,
                            ClRelaxLoop(S, top[2], goal, 1,
                                        [open_set  |-> st.open_set \ {top},
                                         came_from |-> st.came_from,
                                         g_score   |-> st.g_score]))

\* astar(start_node, goal_node) over the walkable set S, lines 87-123
astar(S, s, g) ==
    IF s = NoneVal \/ g = NoneVal THEN << >>
    ELSE AstarLoop(S, g, [open_set  |-> { <<0, s>> },
                          came_from |-> << >>,
                          g_score   |-> Put(<< >>, s, 0)])

\* math.dist compared through its square, exact on hundredths
Dist2(a, b) == (a[1] - b[1]) * (a[1] - b[1]) + (a[2] - b[2]) * (a[2] - b[2])

\* find_nearest_centerline_node(coords): min over a set takes the first
\* nearest point in the set's iteration order, which is any of the nearest
Nearest(S, coords) == { q \in S : \A r \in S : Dist2(coords, q) <= Dist2(coords, r) }

\* public.product_locations: product id -> coordinates and section id;
\* product 4 lies in a section that has no row, product 5 has no location
prod_locs ==
    (1 :> [x_coord |-> 4, y_coord |-> 1, section_id |-> 1]) @@
    (2 :> [x_coord |-> 9, y_coord |-> 6, section_id |-> 2]) @@
    (3 :> [x_coord |-> 1, y_coord |-> 9, section_id |-> 3]) @@
    (4 :> [x_coord |-> 6, y_coord |-> 4, section_id |-> 4])

ProductIds == (DOMAIN prod_locs) \cup {5}

\* public.store_sections: two horizontal aisles and a vertical one
store_sections ==
    (1 :> [x1 |-> 0, y1 |-> -2, x2 |-> 10, y2 |-> 2]) @@
    (2 :> [x1 |-> 10, y1 |-> 6, x2 |-> 0, y2 |-> 4]) @@
    (3 :> [x1 |-> -1, y1 |-> 0, x2 |-> 1, y2 |-> 10])

\* the coordinates of a target
Coords(pid) == <<prod_locs[pid].x_coord, prod_locs[pid].y_coord>>

\* snap_to_section_center(section, prod_x, prod_y); the corner sums of the
\* sections above are even, so the centre is a whole number of hundredths
snap_to_section_center(sec, prod_x, prod_y) ==
    LET x1 == Min(sec.x1, sec.x2)
        x2 == Max(sec.x1, sec.x2)
        y1 == Min(sec.y1, sec.y2)
        y2 == Max(sec.y1, sec.y2)
    IN  IF x2 - x1 >= y2 - y1
        THEN <<prod_x, (y1 + y2) \div 2>>
        ELSE <<(x1 + x2) \div 2, prod_y>>

\* math.dist works on floats: from these positions two products are equally
\* far as real numbers and the float distance to the first is the greater,
\* 0.04123105625617661 against 0.041231056256176596 from (0.05, 0.05)
FloatFarther ==
    { << <<0, 10>>, <<4, 1>>, <<9, 6>> >>,
      << <<5, 5>>, <<4, 1>>, <<9, 6>> >>,
      << <<10, 0>>, <<4, 1>>, <<9, 6>> >> }

\* math.dist(pos, a) <= math.dist(pos, b)
NotFarther(pos, a, b) ==
    Dist2(pos, a) <= Dist2(pos, b) /\ <<pos, a, b>> \notin FloatFarther

\* min(targets, key=...) on a list: the first of the nearest
RECURSIVE FirstNearest(_, _, _)
FirstNearest(targets, pos, i) ==
    IF \A j \in 1..Len(targets) : NotFarther(pos, Coords(targets[i]), Coords(targets[j]))
    THEN i ELSE FirstNearest(targets, pos, i + 1)

\* a removal that takes out every copy of the element at index i
RemoveAt_All(l, i) == SelectSeq(l, LAMBDA x : x # l[i])

\* list.remove of the element at index i
RemoveAt(l, i) == SubSeq(l, 1, i - 1) \o SubSeq(l, i + 1, Len(l))

\* line 431: current_pos_for_sort = next_target[1]
PosForSort(pos, next_target) == Coords(next_target)

\* the while loop of lines 427-431
RECURSIVE OrderTargets(_, _, _)
OrderTargets(targets, current_pos_for_sort, ordered) ==
    IF targets = << >> THEN ordered
    ELSE LET i == FirstNearest(targets, current_pos_for_sort, 1)
         IN  OrderTargets(RemoveAt(targets, i),
                          PosForSort(current_pos_for_sort, targets[i]),
                          Append(ordered, targets[i]))

\* line 423: the requested ids that have a location, in request order
RECURSIVE KnownTargets(_)
KnownTargets(ids) ==
    IF ids = << >> THEN << >>
    ELSE IF Head(ids) \in DOMAIN prod_locs
         THEN <<Head(ids)>> \o KnownTargets(Tail(ids))
         ELSE KnownTargets(Tail(ids))

\* the lists of at most k different product ids
RECURSIVE IdLists(_)
IdLists(k) ==
    IF k = 0 THEN { << >> }
    ELSE LET P == IdLists(k - 1)
         IN  P \cup { Append(l, d) : l \in { q \in P : Len(q) = k - 1 },
                                     d \in ProductIds }

Range(l) == { l[i] : i \in 1..Len(l) }

\* the walkable sets a request may build: the lattice without a few points,
\* and no point at all
RoutePointSets ==
    { Lattice(RtCols, RtRows) \ Hl : Hl \in SubsetsUpTo(Lattice(RtCols, RtRows), MaxHoles) }
        \cup { {} }

\* a request: the sections and the cart location in the database, and the body
InitRoute ==
    /\ centerline_points \in RoutePointSets
    /\ original_start \in { NoneVal, <<1, 1>> }
    /\ destinations \in { l \in IdLists(MaxDest) : Cardinality(Range(l)) = Len(l) }
    /\ ordered_targets = << >> /\ path_segments = << >>
    /\ current_path_start = NoneVal /\ snapped_goal = NoneVal /\ segment = << >>
    /\ route_i = 0 /\ response = NoneVal
    /\ CENTERLINE_SET = {}
    /\ grid = << >> /\ height = 0 /\ width = 0
    /\ target_node = NoneVal /\ requests = << >>
    /\ Idle /\ DbIdle /\ EnrichIdle /\ StepIdle

\* a continue that leaves the for loop
AfterContinue_Break(i, n) == n + 1

\* the continue of lines 442, 451 and 457: on to the next target
AfterContinue(i, n) == i + 1

\* a cursor that stays where the previous segment began
NextPathStart_Stay(cur, goal) == cur

\* line 468: current_path_start = snapped_goal
NextPathStart(cur, goal) == goal

\* what the route handler never touches
notRouteVars == <<grid, height, width, end, start_node, end_node, open_set, came_from,
                  g_score, f_score, result, goal_node, visit_order, target_node, dbVars,
                  requests, enrichVars, stepVars>>

\* lines 386-413 ending in an error response: no cart location (404), no
\* walkable point to snap the start to (500), no destinations (400)
RouteReject ==
    /\ pc = "idle" /\ response = NoneVal
    /\ CENTERLINE_SET' = centerline_points
    /\ \/ /\ original_start = NoneVal
          /\ response' = [status |-> 404, start |-> NoneVal, segments |-> << >>]
       \/ /\ original_start # NoneVal /\ centerline_points = {}
          /\ response' = [status |-> 500, start |-> NoneVal, segments |-> << >>]
       \/ /\ original_start # NoneVal /\ centerline_points # {}
          /\ destinations = << >>
          /\ response' = [status |-> 400, start |-> NoneVal, segments |-> << >>]
    /\ pc' = "responded"
    /\ UNCHANGED <<start, centerline_points, original_start, destinations,
                   ordered_targets, path_segments, current_path_start, snapped_goal,
                   segment, route_i>>
    /\ UNCHANGED notRouteVars

\* lines 386-435: build the walkable set, snap the start, order the targets
RouteBegin ==
    /\ pc = "idle" /\ response = NoneVal
    /\ original_start # NoneVal /\ centerline_points # {} /\ destinations # << >>
    /\ CENTERLINE_SET' = centerline_points
    /\ \E s \in Nearest(centerline_points, original_start) :
        /\ start' = s
        /\ ordered_targets' = OrderTargets(KnownTargets(destinations), s, << >>)
        /\ current_path_start' = s
    /\ path_segments' = << >>
    /\ route_i' = 1
    /\ pc' = "route_loop"
    /\ UNCHANGED <<centerline_points, original_start, destinations, snapped_goal,
                   segment, response>>
    /\ UNCHANGED notRouteVars

\* one pass of the for loop that ends in a continue: no section row (line
\* 442) or no path (line 457); the goal is never None here, the set is not empty
RouteSkip ==
    /\ pc = "route_loop" /\ route_i <= Len(ordered_targets)
    /\ LET pid == ordered_targets[route_i]
           sec_id == prod_locs[pid].section_id
       IN  \/ /\ sec_id \notin DOMAIN store_sections
              /\ UNCHANGED <<snapped_goal, segment>>
           \/ /\ sec_id \in DOMAIN store_sections
              /\ \E g \in Nearest(CENTERLINE_SET,
                                   snap_to_section_center(store_sections[sec_id],
                                                          Coords(pid)[1], Coords(pid)[2])) :
                   /\ astar(CENTERLINE_SET, current_path_start, g) = << >>
                   /\ snapped_goal' = g
                   /\ segment' = << >>
    /\ route_i' = AfterContinue(route_i, Len(ordered_targets))
    /\ UNCHANGED <<start, CENTERLINE_SET, centerline_points, original_start, destinations,
                   ordered_targets, path_segments, current_path_start, response, pc>>
    /\ UNCHANGED notRouteVars

\* one pass of the for loop that appends a segment, lines 436-468
RouteSegment ==
    /\ pc = "route_loop" /\ route_i <= Len(ordered_targets)
    /\ LET pid == ordered_targets[route_i]
           sec_id == prod_locs[pid].section_id
       IN  /\ sec_id \in DOMAIN store_sections
           /\ \E g \in Nearest(CENTERLINE_SET,
                                snap_to_section_center(store_sections[sec_id],
                                                       Coords(pid)[1], Coords(pid)[2])) :
                LET seg == astar(CENTERLINE_SET, current_path_start, g)
                IN  /\ seg # << >>
                    /\ snapped_goal' = g
                    /\ segment' = seg
                    /\ path_segments' =
                         Append(path_segments,
                                [product_id  |-> pid,
                                 section_id  |-> sec_id,
                                 destination |-> Coords(pid),
                                 path_length |-> Len(seg),
                                 path        |-> seg])
                    /\ current_path_start' = NextPathStart(current_path_start, g)
    /\ route_i' = route_i + 1
    /\ UNCHANGED <<start, CENTERLINE_SET, centerline_points, original_start, destinations,
                   ordered_targets, response, pc>>
    /\ UNCHANGED notRouteVars

\* lines 474-477: the response after the for loop
RouteRespond ==
    /\ pc = "route_loop" /\ route_i > Len(ordered_targets)
    /\ response' = [status |-> 200, start |-> start, segments |-> path_segments]
    /\ pc' = "responded"
    /\ UNCHANGED <<start, CENTERLINE_SET, centerline_points, original_start, destinations,
                   ordered_targets, path_segments, current_path_start, snapped_goal,
                   segment, route_i>>
    /\ UNCHANGED notRouteVars

NextRoute == RouteReject \/ RouteBegin \/ RouteSkip \/ RouteSegment \/ RouteRespond

SpecRoute == InitRoute /\ [][NextRoute]_vars

\* ------------------------------- get_shortest_path_route, two at a time
\* the development server serves each request on a thread of its own
Requests == {1, 2}

\* what one request builds from the sections it reads: the store layout
\* may be edited between the two reads
OwnPointSets ==
    { Lattice(RtCols, RtRows) \ Hl : Hl \in SubsetsUpTo(Lattice(RtCols, RtRows), 1) }

\* the points the goal of a target may be snapped to
GoalsOf(pid) ==
    Nearest(CENTERLINE_SET,
            snap_to_section_center(store_sections[prod_locs[pid].section_id],
                                   Coords(pid)[1], Coords(pid)[2]))

\* two requests for one product each, nothing done yet
InitConcurrent ==
    /\ requests \in [Requests ->
                       [pc : {"new"}, own : OwnPointSets, pid : {1, 2, 3},
                        start : {NoneVal}, goal : {NoneVal}, open_set : { {} },
                        came_from : { << >> }, g_score : { << >> }, result : {NoneVal}]]
    /\ CENTERLINE_SET = {}
    /\ grid = << >> /\ height = 0 /\ width = 0
    /\ target_node = NoneVal
    /\ Idle /\ DbIdle /\ RouteIdle /\ EnrichIdle /\ StepIdle

\* what the concurrent requests never touch
notRequestVars == <<grid, height, width, start, end, start_node, end_node, open_set,
                    came_from, g_score, f_score, result, pc, goal_node, visit_order,
                    target_node, dbVars, routeVars, enrichVars, stepVars>>

\* lines 383-386: build_centerline_graph(sections) assigns the global
ReqBuild(r) ==
    /\ requests[r].pc = "new"
    /\ CENTERLINE_SET' = requests[r].own
    /\ requests' = [requests EXCEPT ![r].pc = "snap_start"]
    /\ UNCHANGED notRequestVars

\* line 399: start = find_nearest_centerline_node(original_start), cart at (0.01, 0.01)
ReqSnapStart(r) ==
    /\ requests[r].pc = "snap_start"
    /\ \E s \in Nearest(CENTERLINE_SET, <<1, 1>>) :
         requests' = [requests EXCEPT ![r].pc = "snap_goal", ![r].start = s]
    /\ UNCHANGED CENTERLINE_SET
    /\ UNCHANGED notRequestVars

\* lines 446-447 and the call of astar up to its loop, lines 454 and 94-97
ReqSnapGoal(r) ==
    /\ requests[r].pc = "snap_goal"
    /\ \E g \in GoalsOf(requests[r].pid) :
         requests' = [requests EXCEPT ![r].pc = "search",
                                      ![r].goal = g,
                                      ![r].open_set = { <<0, requests[r].start>> },
                                      ![r].g_score = Put(<< >>, requests[r].start, 0)]
    /\ UNCHANGED CENTERLINE_SET
    /\ UNCHANGED notRequestVars

\* one pass of the loop of astar that expands a node, is_walkable reading
\* the global as it is now
ReqExpand(r) ==
    /\ requests[r].pc = "search" /\ requests[r].open_set # {}
    /\ HeapMin(requests[r].open_set)[2] # requests[r].goal
    /\ LET top == HeapMin(requests[r].open_set)
           st == ClRelaxLoop(CENTERLINE_SET, top[2], requests[r].goal, 1,
                             [open_set  |-> requests[r].open_set \ {top},
                              came_from |-> requests[r].came_from,
                              g_score   |-> requests[r].g_score])
       IN  requests' = [requests EXCEPT ![r].open_set = st.open_set,
                                        ![r].came_from = st.came_from,
                                        ![r].g_score = st.g_score]
    /\ UNCHANGED CENTERLINE_SET
    /\ UNCHANGED notRequestVars

\* the pass that pops the goal
ReqPopGoal(r) ==
    /\ requests[r].pc = "search" /\ requests[r].open_set # {}
    /\ HeapMin(requests[r].open_set)[2] = requests[r].goal
    /\ requests' = [requests EXCEPT
                      ![r].pc = "done",
                      ![r].open_set = @ \ { HeapMin(@) },
                      ![r].result = cl_reconstruct(requests[r].came_from, requests[r].goal)]
    /\ UNCHANGED CENTERLINE_SET
    /\ UNCHANGED notRequestVars

\* the loop of astar ends on an empty heap
ReqExhausted(r) ==
    /\ requests[r].pc = "search" /\ requests[r].open_set = {}
    /\ requests' = [requests EXCEPT ![r].pc = "done", ![r].result = << >>]
    /\ UNCHANGED CENTERLINE_SET
    /\ UNCHANGED notRequestVars

NextConcurrent ==
    \E r \in Requests :
        \/ ReqBuild(r)
        \/ ReqSnapStart(r)
        \/ ReqSnapGoal(r)
        \/ ReqExpand(r)
        \/ ReqPopGoal(r)
        \/ ReqExhausted(r)

SpecConcurrent == InitConcurrent /\ [][NextConcurrent]_vars

\* ------------------------------------------------------- routing_utils.py
\* Angles are carried in thousandths of a degree: atan2 yields a bearing as a
\* multiple of pi/180000, and math.degrees reads the same number as degrees.
\* For the edges between lattice points of the model the float results order
\* against 45 and 180 as these do.

\* atan(n/d) for 0 < n < d, to the nearest thousandth of a degree
AtanTable ==
    (<<1, 2>> :> 26565) @@ (<<1, 3>> :> 18435) @@ (<<2, 3>> :> 33690) @@
    (<<1, 4>> :> 14036) @@ (<<2, 4>> :> 26565) @@ (<<3, 4>> :> 36870)

\* the angle of (d, n) in the first octant, 0 <= n <= d
OctantAngle(n, d) ==
    IF n = 0 THEN 0 ELSE IF n = d THEN 45000 ELSE AtanTable[<<n, d>>]

\* math.atan2(y, x)
atan2(y, x) ==
    LET ax == Abs(x)
        ay == Abs(y)
        base == IF ay <= ax THEN OctantAngle(ay, ax) ELSE 90000 - OctantAngle(ax, ay)
    IN  IF x = 0 /\ y = 0 THEN 0
        ELSE IF x >= 0 /\ y >= 0 THEN base
        ELSE IF x < 0 /\ y >= 0 THEN 180000 - base
        ELSE IF x < 0 THEN base - 180000
        ELSE -base

\* lines 10-13: the two corrections of angle_diff
Normalised(d) ==
    LET d1 == IF d > 180000 THEN d - 360000 ELSE d
    IN  IF d1 < -180000 THEN d1 + 360000 ELSE d1

\* lines 5-13: angle_diff as it reaches line 15; points are <<x, y>>
angle_diff(p1, p2, p3) ==
    Normalised(atan2(p3[2] - p2[2], p3[1] - p2[1]) - atan2(p2[2] - p1[2], p2[1] - p1[1]))

get_direction_change(p1, p2, p3) ==
    LET d == angle_diff(p1, p2, p3)
    IN  IF -45000 <= d /\ d <= 45000 THEN "Proceed straight"
        ELSE IF d > 45000 THEN "Turn left"
        ELSE "Turn right"

\* is_inside of lines 67-68
Inside(section, px, py) ==
    /\ \/ section.x1 <= px /\ px <= section.x2
       \/ section.x2 <= px /\ px <= section.x1
    /\ \/ section.y1 <= py /\ py <= section.y2
       \/ section.y2 <= py /\ py <= section.y1

\* the None of line 71; section ids are positive
NoSection == 0

\* the None of line 33
NoInstruction == "None"

\* the id of the first section of the list that holds the point, or None
get_section_for_point(point, secs) ==
    IF \E i \in 1..Len(secs) : Inside(secs[i], point.x, point.y)
    THEN secs[CHOOSE i \in 1..Len(secs) :
                 /\ Inside(secs[i], point.x, point.y)
                 /\ \A j \in 1..(i - 1) : ~Inside(secs[j], point.x, point.y)].section_id
    ELSE NoSection

\* line 60
Arrived == "You have arrived at your product"

\* lines 29-34: every point with its section and no instruction
Associate(pth, secs) ==
    [i \in 1..Len(pth) |->
        [x |-> pth[i].x, y |-> pth[i].y,
         section_id |-> get_section_for_point(pth[i], secs),
         instruction |-> NoInstruction]]

PointAt(ep, i) == <<ep[i].x, ep[i].y>>

\* lines 37-45: the instruction of every turning point
TurnsMarked(ep) ==
    IF Len(ep) > 2
    THEN [i \in 1..Len(ep) |->
            IF 1 < i /\ i < Len(ep)
            THEN LET instruction ==
                         get_direction_change(PointAt(ep, i - 1), PointAt(ep, i),
                                              PointAt(ep, i + 1))
                 IN  IF instruction # "Proceed straight"
                     THEN [ep[i] EXCEPT !.instruction = instruction]
                     ELSE ep[i]
            ELSE ep[i]]
    ELSE ep

\* line 54 squared: the square root keeps the order of the distances
LocDist2(point, loc) ==
    (point.x - loc.x_coord) * (point.x - loc.x_coord)
        + (point.y - loc.y_coord) * (point.y - loc.y_coord)

\* lines 51-57: the first point at the least distance; positions count from 1
\* and 0 stands for the -1 of an empty path
arrival_index(ep, loc) ==
    IF ep = << >> THEN 0
    ELSE CHOOSE i \in 1..Len(ep) :
            /\ \A j \in 1..Len(ep) : LocDist2(ep[i], loc) <= LocDist2(ep[j], loc)
            /\ \A j \in 1..(i - 1) : LocDist2(ep[j], loc) > LocDist2(ep[i], loc)

\* lines 48-60: the arrival instruction of every destination
ArrivalsMarked(ep, locs) ==
    [i \in 1..Len(ep) |->
        IF \E pid \in DOMAIN locs : arrival_index(ep, locs[pid]) = i
        THEN [ep[i] EXCEPT !.instruction = Arrived]
        ELSE ep[i]]

enrich_path(pth, locs, secs) ==
    IF Len(pth) < 2 THEN pth
    ELSE ArrivalsMarked(TurnsMarked(Associate(pth, secs)), locs)

\* the points a path is made of
EnPoints == { [x |-> i, y |-> j] : i \in 0..(EnCols - 1), j \in 0..(EnRows - 1) }

\* the paths of at most k points
RECURSIVE EnPaths(_)
EnPaths(k) ==
    IF k = 0 THEN { << >> }
    ELSE LET P == EnPaths(k - 1)
         IN  P \cup { Append(l, q) : l \in { r \in P : Len(r) = k - 1 }, q \in EnPoints }

\* two sections: the column x = 0 and, its corners swapped, a piece of the row y = 1
EnSections ==
    << [section_id |-> 1, x1 |-> 0, y1 |-> 0, x2 |-> 0, y2 |-> 1],
       [section_id |-> 2, x1 |-> 2, y1 |-> 1, x2 |-> 1, y2 |-> 1] >>

\* where a product may lie: in its section, next to it, and beyond the lattice
EnLocs ==
    { [x_coord |-> 0, y_coord |-> 0, section_id |-> 1],
      [x_coord |-> 2, y_coord |-> 0, section_id |-> 2],
      [x_coord |-> 0, y_coord |-> 2, section_id |-> 3] }

\* the dicts of at most two destinations
EnLocMaps == UNION { [D -> EnLocs] : D \in SUBSET {1, 2} }

\* the arguments of one enrich_path call
InitEnrich ==
    /\ merged_path \in EnPaths(MaxPath)
    /\ product_locations \in EnLocMaps
    /\ sections = EnSections
    /\ enriched_path = NoneVal
    /\ max_x = 0 /\ max_y = 0 /\ resolution = 0
    /\ grid = << >> /\ height = 0 /\ width = 0
    /\ CENTERLINE_SET = {}
    /\ target_node = NoneVal /\ requests = << >>
    /\ Idle /\ RouteIdle /\ StepIdle

\* enrich_path(path, product_locations, sections), lines 22-62
EnrichPath ==
    /\ pc = "idle" /\ enriched_path = NoneVal
    /\ enriched_path' = enrich_path(merged_path, product_locations, sections)
    /\ pc' = "enriched"
    /\ UNCHANGED <<grid, height, width, start, end, start_node, end_node, open_set,
                   came_from, g_score, f_score, result, visit_order, target_node>>
    /\ UNCHANGED clVars
    /\ UNCHANGED <<dbVars, routeVars, requests, merged_path, product_locations, stepVars>>

NextEnrich == EnrichPath

SpecEnrich == InitEnrich /\ [][NextEnrich]_vars

\* ------------------------------ cart_routes.py: build_centerline_graph
\* Coordinates are hundredths.  The corner sums of the sections of the model
\* are even, so that a centre is a whole number of hundredths and round(., 2)
\* leaves it as it is.
SecX1(sec) == Min(sec.x1, sec.x2)
SecX2(sec) == Max(sec.x1, sec.x2)
SecY1(sec) == Min(sec.y1, sec.y2)
SecY2(sec) == Max(sec.y1, sec.y2)

\* line 41
IsHorizontal(sec) == (SecX2(sec) - SecX1(sec)) > (SecY2(sec) - SecY1(sec))

\* lines 42 and 48
CenterY(sec) == (SecY1(sec) + SecY2(sec)) \div 2
CenterX(sec) == (SecX1(sec) + SecX2(sec)) \div 2

\* min(a, b) folded over the sections of an aisle
Least(S) == CHOOSE m \in S : \A n \in S : m <= n
\* max(a, b) folded over the sections of an aisle
Greatest(S) == CHOOSE m \in S : \A n \in S : m >= n

\* lines 37-52: h_aisles, {center_y: [min_x, max_x]}
h_aisles(secs) ==
    LET H == { i \in 1..Len(secs) : IsHorizontal(secs[i]) }
    IN  [cy \in { CenterY(secs[i]) : i \in H } |->
            << Least({ SecX1(secs[i]) : i \in { j \in H : CenterY(secs[j]) = cy } }),
               Greatest({ SecX2(secs[i]) : i \in { j \in H : CenterY(secs[j]) = cy } }) >>]

\* lines 37-52: v_aisles, {center_x: [min_y, max_y]}
v_aisles(secs) ==
    LET V == { i \in 1..Len(secs) : ~IsHorizontal(secs[i]) }
    IN  [cx \in { CenterX(secs[i]) : i \in V } |->
            << Least({ SecY1(secs[i]) : i \in { j \in V : CenterX(secs[j]) = cx } }),
               Greatest({ SecY2(secs[i]) : i \in { j \in V : CenterX(secs[j]) = cx } }) >>]

\* The loops of lines 56-59 and 62-65 add step to a float again and again.  For
\* these <<lo, hi>> (lo from -0.10 to 0.10, hi one to three steps further) the
\* sum computed in double precision ends above hi, as 0.1 + 0.05 =
\* 0.15000000000000002 does, and the loop stops one point short of hi.
Overshoots ==
    { <<-9, -4>>, <<-9, 1>>, <<-9, 6>>, <<-8, 2>>, <<-6, -1>>, <<-6, 4>>, <<-6, 9>>,
      <<-4, 1>>, <<-4, 6>>, <<-4, 11>>, <<-3, 2>>, <<-3, 12>>, <<-2, 3>>, <<0, 15>>,
      <<1, 6>>, <<1, 11>>, <<1, 16>>, <<2, 12>>, <<5, 15>>, <<6, 21>>, <<7, 12>>,
      <<7, 22>>, <<10, 15>> }

\* the values a while loop of lines 56-59 or 62-65 takes: lo, lo + step, ... up to hi
Steps(lo, hi) ==
    { v \in lo..hi : (v - lo) % GRID_RES = 0 /\ (v = hi => <<lo, hi>> \notin Overshoots) }

\* lines 55-59
HPoints(ha) == UNION { { <<x, y>> : x \in Steps(ha[y][1], ha[y][2]) } : y \in DOMAIN ha }

\* lines 61-65
VPoints(va) == UNION { { <<x, y>> : y \in Steps(va[x][1], va[x][2]) } : x \in DOMAIN va }

\* lines 68-70
Intersections(ha, va) == { <<x, y>> : x \in DOMAIN va, y \in DOMAIN ha }

\* the set assigned to CENTERLINE_SET at line 72
build_centerline_graph(secs) ==
    HPoints(h_aisles(secs)) \cup VPoints(v_aisles(secs))
        \cup Intersections(h_aisles(secs), v_aisles(secs))

\* a horizontal aisle 0.10 long around y = 0, its corners in either order
HAisleRects ==
    { [x1 |-> a, y1 |-> -2, x2 |-> a + 2 * GRID_RES, y2 |-> 2] : a \in 0..MaxShift }
        \cup { [x1 |-> a + 2 * GRID_RES, y1 |-> 2, x2 |-> a, y2 |-> -2] : a \in 0..MaxShift }

\* a vertical aisle 0.10 long around x = 0.05 + b
VAisleRects ==
    { [x1 |-> GRID_RES - 2 + b, y1 |-> d - GRID_RES, x2 |-> GRID_RES + 2 + b, y2 |-> d + GRID_RES] :
        b \in 0..MaxShift, d \in 0..MaxShift }

\* the lists of at most k aisles
RECURSIVE AisleLists(_)
AisleLists(k) ==
    IF k = 0 THEN { << >> }
    ELSE LET P == AisleLists(k - 1)
         IN  P \cup { Append(l, r) : l \in { q \in P : Len(q) = k - 1 },
                                     r \in HAisleRects \cup VAisleRects }

\* the rows of store_sections handed to build_centerline_graph
InitBuild ==
    /\ sections \in AisleLists(MaxSections)
    /\ max_x = 0 /\ max_y = 0 /\ resolution = 0
    /\ grid = << >> /\ height = 0 /\ width = 0
    /\ CENTERLINE_SET = {}
    /\ target_node = NoneVal /\ requests = << >>
    /\ Idle /\ RouteIdle /\ EnrichIdle /\ StepIdle

\* build_centerline_graph(sections), lines 27-72
BuildGraph ==
    /\ pc = "idle"
    /\ CENTERLINE_SET' = build_centerline_graph(sections)
    /\ pc' = "built"
    /\ UNCHANGED <<grid, height, width, start, end, start_node, end_node, open_set,
                   came_from, g_score, f_score, result, goal_node, visit_order,
                   target_node>>
    /\ UNCHANGED <<dbVars, routeVars, requests, enrichVars, stepVars>>

NextBuild == BuildGraph

SpecBuild == InitBuild /\ [][NextBuild]_vars

\* ---------------- cart_routes.py: the ordering loop of the route handler
\* the request body of a call whose cart position has been snapped: any list
\* of product ids, ids repeated and ids without a location included
InitOrder ==
    /\ destinations \in IdLists(MaxDest)
    /\ centerline_points = {} /\ original_start = NoneVal
    /\ ordered_targets = << >> /\ path_segments = << >>
    /\ current_path_start = NoneVal /\ snapped_goal = NoneVal /\ segment = << >>
    /\ route_i = 0 /\ response = NoneVal
    /\ CENTERLINE_SET = {}
    /\ grid = << >> /\ height = 0 /\ width = 0
    /\ target_node = NoneVal /\ requests = << >>
    /\ Idle /\ DbIdle /\ EnrichIdle /\ StepIdle

\* what the ordering loop never touches
notOrderVars ==
    <<grid, height, width, end, start_node, end_node, open_set, came_from, g_score,
      f_score, result, CENTERLINE_SET, goal_node, visit_order, target_node, dbVars,
      centerline_points, original_start, destinations, path_segments,
      current_path_start, snapped_goal, segment, route_i, response, requests,
      enrichVars, observed, previous_set, adds_left>>

\* lines 423-426: the targets with a location, the empty order, the snapped
\* start as the first position
OrderBegin ==
    /\ pc = "idle"
    /\ \E s \in Lattice(RtCols, RtRows) :
        /\ start' = s
        /\ sort_pos' = s
    /\ targets_left' = KnownTargets(destinations)
    /\ ordered_targets' = << >>
    /\ pc' = "order_loop"
    /\ UNCHANGED notOrderVars

\* one pass of the while loop, lines 427-431; list.remove takes out the first
\* element equal to next_target, which is the one min has returned
OrderPass ==
    /\ pc = "order_loop" /\ targets_left # << >>
    /\ LET i == FirstNearest(targets_left, sort_pos, 1)
       IN  /\ ordered_targets' = Append(ordered_targets, targets_left[i])
           /\ targets_left' = RemoveAt(targets_left, i)
           /\ sort_pos' = PosForSort(sort_pos, targets_left[i])
    /\ UNCHANGED <<start, pc>>
    /\ UNCHANGED notOrderVars

\* the while loop ends on the empty list, line 427
OrderEnd ==
    /\ pc = "order_loop" /\ targets_left = << >>
    /\ pc' = "ordered"
    /\ UNCHANGED <<start, targets_left, ordered_targets, sort_pos>>
    /\ UNCHANGED notOrderVars

NextOrder == OrderBegin \/ OrderPass \/ OrderEnd

SpecOrder == InitOrder /\ [][NextOrder]_vars

\* ------- cart_routes.py: build_centerline_graph next to readers of the set
\* the integers of S in ascending order
RECURSIVE Ascending(_)
Ascending(S) == IF S = {} THEN << >> ELSE <<Least(S)>> \o Ascending(S \ {Least(S)})

\* the keys of h_aisles (horizontal) or of v_aisles in the order a dict hands
\* them out: the order in which the for loop of lines 37-52 first met them
AisleKeys(secs, horizontal) ==
    LET key(i) == IF horizontal THEN CenterY(secs[i]) ELSE CenterX(secs[i])
        I == { i \in 1..Len(secs) : IsHorizontal(secs[i]) = horizontal }
        firsts == Ascending({ i \in I : \A j \in I : j < i => key(j) # key(i) })
    IN  [k \in 1..Len(firsts) |-> key(firsts[k])]

\* the concatenation of a sequence of sequences
RECURSIVE Concat(_)
Concat(ss) == IF ss = << >> THEN << >> ELSE Head(ss) \o Concat(Tail(ss))

\* the arguments of the add calls of lines 55-59, in order
HAdds(secs) ==
    LET ha == h_aisles(secs)
        ys == AisleKeys(secs, TRUE)
    IN  Concat([k \in 1..Len(ys) |->
                  LET xs == Ascending(Steps(ha[ys[k]][1], ha[ys[k]][2]))
                  IN  [n \in 1..Len(xs) |-> <<xs[n], ys[k]>>]])

\* the arguments of the add calls of lines 61-65, in order
VAdds(secs) ==
    LET va == v_aisles(secs)
        xs == AisleKeys(secs, FALSE)
    IN  Concat([k \in 1..Len(xs) |->
                  LET ys == Ascending(Steps(va[xs[k]][1], va[xs[k]][2]))
                  IN  [n \in 1..Len(ys) |-> <<xs[k], ys[n]>>]])

\* the arguments of the add calls of lines 68-70, in order
XAdds(secs) ==
    LET ys == AisleKeys(secs, TRUE)
        xs == AisleKeys(secs, FALSE)
    IN  Concat([k \in 1..Len(ys) |-> [n \in 1..Len(xs) |-> <<xs[n], ys[k]>>]])

\* every add call of one build, in order
Adds(secs) == HAdds(secs) \o VAdds(secs) \o XAdds(secs)

\* a build that works on the process-wide set itself
Published_InPlace(global, local, assigned) == local

\* what the name CENTERLINE_SET is bound to: the set it was bound to before,
\* until the assignment of line 72 binds it to the local set
Published(global, local, assigned) == IF assigned THEN local ELSE global

\* the lists of at most k rows of store_sections
RECURSIVE RowLists(_)
RowLists(k) ==
    IF k = 0 THEN { << >> }
    ELSE LET P == RowLists(k - 1)
         IN  P \cup { Append(l, store_sections[r]) : l \in { q \in P : Len(q) = k - 1 },
                                                     r \in DOMAIN store_sections }

\* a request is about to build the set from its sections while the set an
\* earlier request has published is in place
InitPublish ==
    /\ sections \in RowLists(MaxSections)
    /\ previous_set \in { build_centerline_graph(l) : l \in RowLists(MaxSections) }
    /\ CENTERLINE_SET = previous_set
    /\ max_x = 0 /\ max_y = 0 /\ resolution = 0
    /\ grid = << >> /\ height = 0 /\ width = 0
    /\ target_node = NoneVal /\ requests = << >>
    /\ targets_left = << >> /\ sort_pos = NoneVal /\ observed = << >> /\ adds_left = << >>
    /\ Idle /\ RouteIdle /\ EnrichIdle

\* what neither the build nor a reader touches
notPublishVars ==
    <<grid, height, width, start, end, start_node, end_node, open_set, came_from,
      g_score, f_score, result, goal_node, visit_order, target_node, dbVars,
      original_start, destinations, ordered_targets, path_segments,
      current_path_start, snapped_goal, segment, route_i, response, requests,
      enrichVars, targets_left, sort_pos, previous_set>>

\* build_centerline_graph up to the first add call, lines 27-52
BuildStart ==
    /\ pc = "idle"
    /\ centerline_points' = {}
    /\ adds_left' = Adds(sections)
    /\ CENTERLINE_SET' = Published(CENTERLINE_SET, centerline_points', FALSE)
    /\ pc' = "filling"
    /\ UNCHANGED observed
    /\ UNCHANGED notPublishVars

\* one add call of lines 55-70
BuildAdd ==
    /\ pc = "filling" /\ adds_left # << >>
    /\ centerline_points' = centerline_points \cup { Head(adds_left) }
    /\ adds_left' = Tail(adds_left)
    /\ CENTERLINE_SET' = Published(CENTERLINE_SET, centerline_points', FALSE)
    /\ UNCHANGED <<pc, observed>>
    /\ UNCHANGED notPublishVars

\* the assignment of line 72
BuildPublish ==
    /\ pc = "filling" /\ adds_left = << >>
    /\ CENTERLINE_SET' = Published(CENTERLINE_SET, centerline_points, TRUE)
    /\ pc' = "built"
    /\ UNCHANGED <<centerline_points, adds_left, observed>>
    /\ UNCHANGED notPublishVars

\* what a reader gets when it loads the global name, and the state the
\* build is in at that moment
Load(line) == [line |-> line, seen |-> CENTERLINE_SET, local |-> centerline_points]

\* another request: find_nearest_centerline_node, the test of line 76
ReadNearestTest ==
    /\ Len(observed) = 0
    /\ observed' = Append(observed, Load(76))
    /\ UNCHANGED <<pc, CENTERLINE_SET, centerline_points, adds_left>>
    /\ UNCHANGED notPublishVars

\* find_nearest_centerline_node, the min of line 78
ReadNearestMin ==
    /\ Len(observed) = 1
    /\ observed' = Append(observed, Load(78))
    /\ UNCHANGED <<pc, CENTERLINE_SET, centerline_points, adds_left>>
    /\ UNCHANGED notPublishVars

\* is_walkable, line 82
ReadIsWalkable ==
    /\ Len(observed) = 2
    /\ observed' = Append(observed, Load(82))
    /\ UNCHANGED <<pc, CENTERLINE_SET, centerline_points, adds_left>>
    /\ UNCHANGED notPublishVars

NextPublish ==
    BuildStart \/ BuildAdd \/ BuildPublish
        \/ ReadNearestTest \/ ReadNearestMin \/ ReadIsWalkable

SpecPublish == InitPublish /\ [][NextPublish]_vars

\* ======================================================================
\* Properties
\* ======================================================================
Last(p) == p[Len(p)]

\* find_path has returned a path
Returned == pc = "done" /\ height > 0 /\ result # NoneVal

\* the cell of the start argument, and of the end argument before resolution
StartCell == NodeOf(start)
EndCell == NodeOf(end)

FreeCell(c) == InGrid(c, height, width) /\ grid[c] = 0
BlockedCell(c) == InGrid(c, height, width) /\ grid[c] = 1

\* king-move adjacency of two cells
Adjacent8(a, b) == a # b /\ Abs(a[1] - b[1]) <= 1 /\ Abs(a[2] - b[2]) <= 1

\* the free cells a sequence of free neighbouring cells connects to s
RECURSIVE Grow8(_)
Grow8(S) ==
    LET N == S \cup { n \in Cells(height, width) :
                        grid[n] = 0 /\ \E c \in S : Adjacent8(c, n) }
    IN  IF N = S THEN S ELSE Grow8(N)

Connected8(s, g) == g \in Grow8({s})

\* total step cost of a path, each step costing the distance between its cells
RECURSIVE PathCost(_)
PathCost(p) ==
    IF Len(p) <= 1 THEN 0
    ELSE heuristic(p[1], p[2]) + PathCost(Tail(p))

MinOf(S) == IF S = {} THEN Inf ELSE CHOOSE m \in S : \A x \in S : m <= x

\* least cost from s to every cell over free neighbouring cells (Bellman-Ford)
RECURSIVE LeastCost(_, _)
LeastCost(d, k) ==
    LET d2 == [c \in Cells(height, width) |->
                 IF grid[c] = 1 THEN Inf
                 ELSE Min(d[c],
                          MinOf({ d[n] + heuristic(n, c) :
                                    n \in { m \in Cells(height, width) :
                                              Adjacent8(m, c) /\ d[m] < Inf } }))]
    IN  IF k = 0 \/ d2 = d THEN d ELSE LeastCost(d2, k - 1)

BestCost(s, g) ==
    LeastCost([c \in Cells(height, width) |-> IF c = s THEN 0 ELSE Inf],
              height * width)[g]

\* --------------------------------------------------------------------
\* C1: a returned path starts at the start cell and ends at the resolved
\* end cell: the end cell itself when it is free, otherwise the free cell
\* the fallback search substitutes for it.
C1_Endpoints ==
    Returned =>
        /\ result[1] = StartCell
        /\ Last(result) = IF grid[EndCell] = 0 THEN EndCell
                          ELSE find_closest_walkable_node(grid, height, width, EndCell)

C1_Witness ==
    /\ Returned /\ Len(result) >= 3
    /\ BlockedCell(EndCell) /\ Last(result) # EndCell

C3_NoBlockedCell ==
    Returned => \A i \in 1..Len(result) : FreeCell(result[i])

C3_Witness ==
    /\ Returned /\ Len(result) >= 3
    /\ BlockedCell(EndCell)
    /\ \E c \in Cells(height, width) : c # EndCell /\ grid[c] = 1

\* --------------------------------------------------------------------
\* C4: a returned path has the least total step cost among all sequences
\* of free neighbouring cells from the start to the resolved end.
C4_Shortest ==
    Returned => PathCost(result) <= BestCost(result[1], Last(result))

\* --------------------------------------------------------------------
\* centerline astar: reference notions
ClAdjacent(a, b) ==
    \/ Abs(a[1] - b[1]) = GRID_RES /\ a[2] = b[2]
    \/ a[1] = b[1] /\ Abs(a[2] - b[2]) = GRID_RES

\* number of steps of a shortest walkable path from the frontier to g,
\* -1 when there is none (breadth-first layers)
RECURSIVE ClLayers(_, _, _, _)
ClLayers(frontier, seen, g, k) ==
    IF g \in frontier THEN k
    ELSE LET nxt == { n \in CENTERLINE_SET \ seen : \E c \in frontier : ClAdjacent(c, n) }
         IN  IF nxt = {} THEN -1 ELSE ClLayers(nxt, seen \cup nxt, g, k + 1)

ClSteps(s, g) == ClLayers({s}, {s}, g, 0)

AstarDone == pc = "done" /\ height = 0 /\ start_node # NoneVal /\ goal_node # NoneVal

\* C5: for start and goal connected through walkable points the centerline
\* astar returns a walkable path from start to goal, one GRID_RES step at a
\* time, with the least number of steps among all such paths.
C5_MinSteps ==
    (AstarDone /\ ClSteps(start_node, goal_node) >= 0) =>
        /\ result # << >>
        /\ result[1] = start_node /\ Last(result) = goal_node
        /\ \A i \in 1..Len(result) : result[i] \in CENTERLINE_SET
        /\ \A i \in 1..(Len(result) - 1) : ClAdjacent(result[i], result[i + 1])
        /\ Len(result) - 1 = ClSteps(start_node, goal_node)

\* a path that has to go around a missing point
C5_Witness ==
    /\ AstarDone /\ result # << >>
    /\ (Len(result) - 1) * GRID_RES > cl_heuristic(start_node, goal_node)

\* --------------------------------------------------------------------
\* the end cell after the fallback of lines 23-27
ResolvedEndCell ==
    IF grid[EndCell] = 0 THEN EndCell
    ELSE find_closest_walkable_node(grid, height, width, EndCell)

\* C6: with a free in-bounds start and an in-bounds end, find_path returns
\* None exactly when no sequence of free neighbouring cells connects the
\* start to the resolved end: the loop ends on an empty heap only then, and
\* whenever such a sequence exists the call ends with the goal popped and a
\* path returned.
C6_NoneOnlyWhenUnreachable ==
    (pc = "done" /\ height > 0 /\ FreeCell(StartCell) /\ InGrid(EndCell, height, width))
        => (result = NoneVal <=> ~Connected8(StartCell, ResolvedEndCell))

\* the search ran and the heap emptied
C6_Witness ==
    /\ pc = "done" /\ height > 0 /\ FreeCell(StartCell) /\ InGrid(EndCell, height, width)
    /\ FreeCell(EndCell) /\ result = NoneVal

\* --------------------------------------------------------------------
\* C7: when start and end are the same free in-bounds cell s, the returned
\* path is exactly <<s>>, for AStar.find_path and for the centerline astar.
C7_SameCell ==
    /\ (pc = "done" /\ height > 0 /\ StartCell = EndCell /\ FreeCell(StartCell))
          => result = <<StartCell>>
    /\ (AstarDone /\ start_node = goal_node) => result = <<start_node>>

\* two different points of the same cell
C7_Witness ==
    /\ pc = "done" /\ height > 0 /\ start # end /\ StartCell = EndCell
    /\ result = <<StartCell>>

\* --------------------------------------------------------------------
NoBlockedCell == \A c \in Cells(height, width) : grid[c] = 0

C9_OutOfBoundsDistinct ==
    (pc = "done" /\ height > 0
       /\ (~InGrid(StartCell, height, width) \/ ~InGrid(EndCell, height, width)))
        => result # NoneVal

\* --------------------------------------------------------------------
\* C10: a blocked start is resolved to the free cell the fallback search
\* finds and the search runs from there: when that cell is connected to the
\* resolved end, a path starting at it is returned.
C10_BlockedStartResolved ==
    (pc = "done" /\ height > 0 /\ BlockedCell(StartCell) /\ InGrid(EndCell, height, width)
       /\ find_closest_walkable_node(grid, height, width, StartCell) # NoneVal
       /\ Connected8(find_closest_walkable_node(grid, height, width, StartCell),
                     ResolvedEndCell))
        => (result # NoneVal
            /\ result[1] = find_closest_walkable_node(grid, height, width, StartCell))

\* --------------------------------------------------------------------
\* the 4-directional grid distance of two cells
GridDist4(a, b) == Abs(a[1] - b[1]) + Abs(a[2] - b[2])

SomeFreeCell == \E c \in Cells(height, width) : grid[c] = 0

\* find_closest_walkable_node has returned
FbDone == pc = "fb_done"

\* C11: for a blocked target in a grid that has a free cell,
\* find_closest_walkable_node returns a free in-bounds cell with the least
\* 4-directional grid distance from the target among all free cells; for a
\* free target it returns the target itself.
C11_GraphNearest ==
    FbDone =>
        IF grid[target_node] = 0 THEN result = target_node
        ELSE SomeFreeCell =>
               /\ result # NoneVal
               /\ FreeCell(result)
               /\ \A c \in Cells(height, width) :
                     grid[c] = 0 => GridDist4(target_node, result) <= GridDist4(target_node, c)

\* the returned cell is two steps away and a free cell lies nearer in a
\* straight line
C11_Witness ==
    /\ FbDone /\ grid[target_node] = 1 /\ result # NoneVal
    /\ GridDist4(target_node, result) >= 2
    /\ \E c \in Cells(height, width) :
         /\ grid[c] = 0
         /\ (c[1] - target_node[1]) * (c[1] - target_node[1])
              + (c[2] - target_node[2]) * (c[2] - target_node[2])
            < (result[1] - target_node[1]) * (result[1] - target_node[1])
              + (result[2] - target_node[2]) * (result[2] - target_node[2])

\* --------------------------------------------------------------------
\* the cells the fallback search reaches from t: it steps in the four
\* directions and goes on only through blocked cells
RECURSIVE Grow4(_)
Grow4(S) ==
    LET N == S \cup { n \in Cells(height, width) :
                        \E c \in S : grid[c] = 1 /\ GridDist4(c, n) = 1 }
    IN  IF N = S THEN S ELSE Grow4(N)

FreeReachable4(t) == \E c \in Grow4({t}) : grid[c] = 0

\* C12: find_closest_walkable_node returns None exactly when its target is
\* blocked and the fallback search reaches no free cell from it; and a
\* find_path call whose end is such a cell returns None without having set
\* up or run the search loop.
C12_NoneWhenNothingFree ==
    /\ FbDone => (result = NoneVal <=> ~FreeReachable4(target_node))
    /\ (pc = "done" /\ height > 0 /\ InGrid(EndCell, height, width)
          /\ ~FreeReachable4(EndCell))
         => (result = NoneVal /\ open_set = {} /\ came_from = << >>)

\* find_path on a grid without a free cell, start and end inside the grid
C12_Witness ==
    /\ ~SomeFreeCell /\ height * width >= 4
    /\ pc = "done" /\ InGrid(StartCell, height, width)
    /\ InGrid(EndCell, height, width) /\ StartCell # EndCell
    /\ result = NoneVal

\* --------------------------------------------------------------------
\* create_grid_from_db has returned
GridDone == pc = "grid_done"

\* the obstacle sec, scaled to grid units and its corners put in order,
\* covers the cell <<r, c>>
Covers(sec, res, cell) ==
    /\ Min(Scaled(sec.y1, res), Scaled(sec.y2, res)) <= cell[1]
    /\ cell[1] <= Max(Scaled(sec.y1, res), Scaled(sec.y2, res))
    /\ Min(Scaled(sec.x1, res), Scaled(sec.x2, res)) <= cell[2]
    /\ cell[2] <= Max(Scaled(sec.x1, res), Scaled(sec.x2, res))

\* C13: the grid create_grid_from_db returns has int(max_y * resolution) + 1
\* rows and int(max_x * resolution) + 1 columns, and a cell of it is blocked
\* if and only if at least one obstacle of the list covers it; so an empty
\* list gives an all-free grid, and overlapping or repeated obstacles give
\* the union of their cells.
C13_BlockedIffCovered ==
    GridDone =>
        /\ DOMAIN grid = Cells(Scaled(max_y, resolution) + 1, Scaled(max_x, resolution) + 1)
        /\ \A c \in DOMAIN grid :
              grid[c] = 1 <=> \E i \in 1..Len(sections) : Covers(sections[i], resolution, c)
        /\ \A c \in DOMAIN grid : grid[c] \in {0, 1}
        /\ sections = << >> => \A c \in DOMAIN grid : grid[c] = 0

\* two obstacles with unordered corners that overlap in a cell and each
\* cover a cell the other does not, one of them reaching outside the grid
C13_Witness ==
    /\ GridDone /\ Len(sections) = 2
    /\ sections[1].x1 > sections[1].x2
    /\ \E c \in DOMAIN grid :
         Covers(sections[1], resolution, c) /\ Covers(sections[2], resolution, c)
    /\ \E c \in DOMAIN grid :
         Covers(sections[1], resolution, c) /\ ~Covers(sections[2], resolution, c)
    /\ \E c \in DOMAIN grid :
         ~Covers(sections[1], resolution, c) /\ Covers(sections[2], resolution, c)
    /\ \E c \in DOMAIN grid : grid[c] = 0
    /\ Scaled(sections[2].x1, resolution) < 0

\* --------------------------------------------------------------------
SwapX(sec) == [x1 |-> sec.x2, y1 |-> sec.y1, x2 |-> sec.x1, y2 |-> sec.y2]

SwapY(sec) == [x1 |-> sec.x1, y1 |-> sec.y2, x2 |-> sec.x2, y2 |-> sec.y1]

\* C14: the grid built from the list with the corners of any one obstacle
\* swapped on the x axis, on the y axis or on both is the grid built from
\* the list itself.
C14_SwapInvariant ==
    GridDone =>
        \A i \in 1..Len(sections) :
            /\ create_grid_from_db([sections EXCEPT ![i] = SwapX(@)],
                                   max_x, max_y, resolution) = grid
            /\ create_grid_from_db([sections EXCEPT ![i] = SwapY(@)],
                                   max_x, max_y, resolution) = grid
            /\ create_grid_from_db([sections EXCEPT ![i] = SwapX(SwapY(@))],
                                   max_x, max_y, resolution) = grid

\* an obstacle given with both corners out of order that blocks a cell
C14_Witness ==
    /\ GridDone /\ Len(sections) >= 1
    /\ sections[1].x1 > sections[1].x2 /\ sections[1].y1 > sections[1].y2
    /\ \E c \in DOMAIN grid : grid[c] = 1
    /\ \E c \in DOMAIN grid : grid[c] = 0

\* --------------------------------------------------------------------
\* the for loop of the route handler is about to take ordered_targets[route_i]
AtTarget == pc = "route_loop" /\ route_i <= Len(ordered_targets)

\* C15: the waypoint the sequencer takes next is, among the waypoints not
\* yet visited, one of least straight-line distance from the cursor: the
\* snapped start at first, afterwards the endpoint reached by the last
\* segment found; a skipped waypoint leaves the cursor where it was.
C15_NearestToCursor ==
    AtTarget =>
        \A j \in route_i..Len(ordered_targets) :
            Dist2(current_path_start, Coords(ordered_targets[route_i]))
                <= Dist2(current_path_start, Coords(ordered_targets[j]))

\* --------------------------------------------------------------------
\* the handler has answered after its for loop
Answered == pc = "responded" /\ response.status = 200

SegmentOf(pid) == { n \in 1..Len(path_segments) : path_segments[n].product_id = pid }

\* the cursor when ordered_targets[k] is attempted: the end of the last
\* segment of an earlier target, the snapped start when there is none
CursorAt(k) ==
    LET prior == { n \in 1..Len(path_segments) :
                     \E m \in 1..(k - 1) : ordered_targets[m] = path_segments[n].product_id }
    IN  IF prior = {} THEN start
        ELSE Last(path_segments[CHOOSE n \in prior : \A m \in prior : m <= n].path)

HasSection(pid) == prod_locs[pid].section_id \in DOMAIN store_sections

\* C16: a waypoint whose section has no row or to whose snapped goal no
\* walkable path leads from the cursor is left out of the segment list and
\* no other is: every waypoint after it is still attempted and has its
\* segment when a path exists; and whenever at least one waypoint has a
\* segment the response is the normal one, status 200, carrying the
\* segments.
C16_SkipAndContinue ==
    /\ Answered =>
          /\ response.segments = path_segments
          /\ \A k \in 1..Len(ordered_targets) :
                LET pid == ordered_targets[k]
                IN  IF SegmentOf(pid) = {}
                    THEN \/ ~HasSection(pid)
                         \/ \E g \in GoalsOf(pid) : ClSteps(CursorAt(k), g) = -1
                    ELSE /\ HasSection(pid)
                         /\ \E g \in GoalsOf(pid) : ClSteps(CursorAt(k), g) >= 0
    /\ (pc = "responded" /\ path_segments # << >>) => response.status = 200

\* the first waypoint has no path, the second has no section row, the
\* third has its segment
C16_Witness ==
    /\ Answered /\ Len(ordered_targets) = 3 /\ Len(path_segments) = 1
    /\ path_segments[1].product_id = ordered_targets[3]
    /\ Len(path_segments[1].path) >= 2

\* --------------------------------------------------------------------
\* C17: a request with destinations of which no waypoint has a segment does
\* not end in the normal response: its status is not 200.
C17_TotalFailureIsError ==
    (pc = "responded" /\ destinations # << >> /\ path_segments = << >>)
        => response.status # 200

\* --------------------------------------------------------------------
\* C18: the path of the first segment begins at the snapped start and the
\* path of every later segment begins at the last point of the segment
\* before it, in the list being built and in the response.
C18_Continuous ==
    /\ \A n \in 1..Len(path_segments) :
          /\ path_segments[n].path # << >>
          /\ path_segments[n].path[1] =
                IF n = 1 THEN start ELSE Last(path_segments[n - 1].path)
    /\ Answered =>
          /\ response.start = start
          /\ \A n \in 1..Len(response.segments) :
                response.segments[n].path[1] =
                  IF n = 1 THEN response.start ELSE Last(response.segments[n - 1].path)

\* two segments of more than one point around a skipped waypoint
C18_Witness ==
    /\ Answered /\ Len(ordered_targets) = 3 /\ Len(response.segments) = 2
    /\ response.segments[1].product_id = ordered_targets[1]
    /\ response.segments[2].product_id = ordered_targets[3]
    /\ Len(response.segments[1].path) >= 2 /\ Len(response.segments[2].path) >= 2

\* --------------------------------------------------------------------
\* request r has built its set and has not finished: its next step snaps a
\* point to the walkable set or expands a node over it
Consulting(r) == requests[r].pc \in {"snap_start", "snap_goal", "search"}

\* C19: whenever a request is about to consult the walkable set, for
\* snapping its start or its goal or inside its search, the set is the one
\* built from the sections this request read.
C19_OwnWalkableSet ==
    \A r \in DOMAIN requests :
        Consulting(r) => CENTERLINE_SET = requests[r].own

\* ---------------------------------------------------------------------------
\* the predecessor recorded for c, NoneVal when there is none
Pred(cf, c) == IF c \in DOMAIN cf THEN cf[c] ELSE NoneVal

\* the cells popped so far
Visited == { visit_order[i] : i \in 1..Len(visit_order) }

\* position of the first visit of c
VisitIndex(c) ==
    CHOOSE i \in 1..Len(visit_order) :
        visit_order[i] = c /\ \A j \in 1..(i - 1) : visit_order[j] # c

\* a search has returned a path
PathReturned == pc = "done" /\ result # << >>

\* every predecessor on record is a cell that was expanded, never the cell itself
PredecessorsExpanded ==
    pc \in {"loop", "cl_loop", "done"} =>
        \A c \in DOMAIN came_from :
            Pred(came_from, c) # NoneVal =>
                Pred(came_from, c) # c /\ Pred(came_from, c) \in Visited

\* the chain from the goal: result read backwards
ChainNoRepeat ==
    \A i, j \in 1..Len(result) : result[i] = result[j] => i = j

\* C20: during any search the predecessor recorded for a relaxed cell is the
\* cell being expanded and never the cell itself; the chain that the
\* reconstruction follows from the goal reaches the start without repeating a
\* cell, is no longer than the number of cells visited, and the position of
\* its cells in the order of visits strictly decreases from the goal to the
\* start.
C20_PredecessorChain ==
    /\ PredecessorsExpanded
    /\ PathReturned =>
          /\ result[1] = start_node
          /\ ChainNoRepeat
          /\ Len(result) <= Cardinality(Visited)
          /\ \A i \in 1..(Len(result) - 1) :
                VisitIndex(result[i]) < VisitIndex(result[i + 1])

\* ---------------------------------------------------------------------------
\* enrich_path has returned
Enriched == pc = "enriched"

\* the edges into and out of point i of the path handed in
EdgeIn(i) == <<merged_path[i].x - merged_path[i - 1].x, merged_path[i].y - merged_path[i - 1].y>>
EdgeOut(i) == <<merged_path[i + 1].x - merged_path[i].x, merged_path[i + 1].y - merged_path[i].y>>

CrossOf(a, b) == a[1] * b[2] - a[2] * b[1]
DotOf(a, b) == a[1] * b[1] + a[2] * b[2]

\* the signed angle from edge a to edge b, taken in (-180, 180], is more than
\* 45 degrees: b points to the left of a and more sideways than ahead, or
\* straight back
LeftOf45(a, b) ==
    \/ CrossOf(a, b) > 0 /\ DotOf(a, b) < CrossOf(a, b)
    \/ CrossOf(a, b) = 0 /\ DotOf(a, b) < 0

\* the signed angle from edge a to edge b is less than -45 degrees
RightOf45(a, b) == CrossOf(a, b) < 0 /\ DotOf(a, b) < -CrossOf(a, b)

\* an interior point with two edges of positive length
ProperInterior(i) ==
    /\ 1 < i /\ i < Len(merged_path)
    /\ EdgeIn(i) # <<0, 0>> /\ EdgeOut(i) # <<0, 0>>

\* an exact reversal at point i
Reversal(i) == CrossOf(EdgeIn(i), EdgeOut(i)) = 0 /\ DotOf(EdgeIn(i), EdgeOut(i)) < 0

TurnInstructions == {"Turn left", "Turn right"}

\* C21: an interior point of the path is classified by the signed angle between
\* its incoming and its outgoing edge: more than 45 degrees is a left turn,
\* less than -45 degrees a right turn, anything in [-45, 45] (the two bounds
\* and collinear points included) no instruction; the first and the last
\* point never carry a turn instruction.  A point marked as an arrival carries
\* that marker instead.
C21_TurnBySignedAngle ==
    (Enriched /\ Len(merged_path) >= 2) =>
        \A i \in 1..Len(enriched_path) :
            LET ins == enriched_path[i].instruction
            IN  /\ (i = 1 \/ i = Len(enriched_path)) => ins \notin TurnInstructions
                /\ (ProperInterior(i) /\ ins # Arrived) =>
                      ins = IF LeftOf45(EdgeIn(i), EdgeOut(i)) THEN "Turn left"
                            ELSE IF RightOf45(EdgeIn(i), EdgeOut(i)) THEN "Turn right"
                            ELSE NoInstruction

\* the same classification, the exact reversals left aside
TurnsExceptReversals ==
    (Enriched /\ Len(merged_path) >= 2) =>
        \A i \in 1..Len(enriched_path) :
            LET ins == enriched_path[i].instruction
            IN  /\ (i = 1 \/ i = Len(enriched_path)) => ins \notin TurnInstructions
                /\ (ProperInterior(i) /\ ~Reversal(i) /\ ins # Arrived) =>
                      ins = IF LeftOf45(EdgeIn(i), EdgeOut(i)) THEN "Turn left"
                            ELSE IF RightOf45(EdgeIn(i), EdgeOut(i)) THEN "Turn right"
                            ELSE NoInstruction

\* the difference normalised at point i, as the call made for it computes it
DiffAt(i) == angle_diff(PointAt(merged_path, i - 1), PointAt(merged_path, i),
                        PointAt(merged_path, i + 1))

\* C22: the signed angular difference used for turn detection lies in the
\* half-open interval (-180, 180] degrees, so an exact reversal of direction
\* is classified alike whatever the incoming bearing is: as any other there-
\* and-back between two points of the lattice.
C22_NormalisedHalfOpen ==
    Enriched =>
        \A i \in 1..Len(merged_path) :
            ProperInterior(i) =>
                /\ -180000 < DiffAt(i) /\ DiffAt(i) <= 180000
                /\ Reversal(i) =>
                     \A a, b \in { <<q.x, q.y>> : q \in EnPoints } :
                        a # b => get_direction_change(a, b, a)
                                   = get_direction_change(PointAt(merged_path, i - 1),
                                                          PointAt(merged_path, i),
                                                          PointAt(merged_path, i + 1))

\* squared distance from point i of the path handed in to a destination
WayDist2(i, loc) ==
    (merged_path[i].x - loc.x_coord) * (merged_path[i].x - loc.x_coord)
        + (merged_path[i].y - loc.y_coord) * (merged_path[i].y - loc.y_coord)

\* point i is the nearest to the destination, the first one among equals
NearestFirst(i, loc) ==
    /\ \A j \in 1..Len(merged_path) : WayDist2(i, loc) <= WayDist2(j, loc)
    /\ \A j \in 1..(i - 1) : WayDist2(j, loc) # WayDist2(i, loc)

\* the returned point i carries the arrival marker
MarkedArrival(i) ==
    /\ i \in 1..Len(enriched_path)
    /\ "instruction" \in DOMAIN enriched_path[i]
    /\ enriched_path[i].instruction = Arrived

\* C23: for every destination and every path that is not empty, the path point
\* nearest to the destination's coordinates (the one of lowest index among
\* equally near ones) carries the arrival marker after enrich_path.
C23_ArrivalAtNearest ==
    (Enriched /\ merged_path # << >>) =>
        \A pid \in DOMAIN product_locations :
            \A i \in 1..Len(merged_path) :
                NearestFirst(i, product_locations[pid]) => MarkedArrival(i)

\* the same for the paths of two points and more
ArrivalAtNearestFromTwo ==
    (Enriched /\ Len(merged_path) >= 2) =>
        \A pid \in DOMAIN product_locations :
            \A i \in 1..Len(merged_path) :
                NearestFirst(i, product_locations[pid]) => MarkedArrival(i)

\* C24: the path point marked as the arrival of a destination carries that
\* destination's own section id in the enriched output, also when the point
\* lies outside every section rectangle or inside another section.
C24_ArrivalCarriesSection ==
    Enriched =>
        \A pid \in DOMAIN product_locations :
            \A i \in 1..Len(merged_path) :
                (NearestFirst(i, product_locations[pid]) /\ MarkedArrival(i)) =>
                    enriched_path[i].section_id = product_locations[pid].section_id

\* the walkable points one step of the centerline astar away from the points of R
ClNeighbours(S, R) ==
    { q \in S : \E r \in R, i \in 1..Len(ClDirs) :
                    q = <<r[1] + ClDirs[i][1], r[2] + ClDirs[i][2]>> }

\* the points reached from R by such steps
RECURSIVE ClReach(_, _)
ClReach(S, R) ==
    IF ClNeighbours(S, R) \subseteq R THEN R ELSE ClReach(S, R \cup ClNeighbours(S, R))

\* build_centerline_graph has returned
Built == pc = "built"

\* the centerline at height cy and the one at abscissa cx cross
Crossing(ha, va, cx, cy) ==
    /\ ha[cy][1] <= cx /\ cx <= ha[cy][2]
    /\ va[cx][1] <= cy /\ cy <= va[cx][2]

\* C25: for every horizontal and vertical centerline that cross, the point of
\* intersection added to the walkable set is linked by single GRID_RES steps
\* over walkable points to the points of both centerlines, so that a point of
\* the one is reachable from a point of the other.
C25_CrossingsLinked ==
    Built =>
        LET ha == h_aisles(sections)
            va == v_aisles(sections)
        IN  \A cy \in DOMAIN ha, cx \in DOMAIN va :
                Crossing(ha, va, cx, cy) =>
                    LET R == ClReach(CENTERLINE_SET, { <<cx, cy>> })
                    IN  /\ { <<x, cy>> : x \in Steps(ha[cy][1], ha[cy][2]) } \subseteq R
                        /\ { <<cx, y>> : y \in Steps(va[cx][1], va[cx][2]) } \subseteq R

\* the entry about to be popped from the heap of the centerline search
TopEntry == HeapMin(open_set)

\* the g an entry <<f, node>> was pushed with (line 121: f = g + heuristic)
EntryG(e) == e[1] - cl_heuristic(e[2], goal_node)

\* the while loop of astar is about to pop an entry whose g is worse than the
\* g recorded for its cell
StalePop ==
    /\ pc = "cl_loop" /\ open_set # {}
    /\ EntryG(TopEntry) > Get(g_score, TopEntry[2])

\* C26: a pass of the while loop of the centerline astar that pops an entry
\* whose g is worse than the g recorded for its cell pushes no neighbour and
\* changes no g-score and no predecessor: the heap only loses the entry.
C26_StaleIgnored ==
    [][StalePop =>
         /\ g_score' = g_score
         /\ came_from' = came_from
         /\ open_set' = open_set \ {TopEntry}]_vars

\* a cell was queued twice and its second, stale entry has just been popped
C26_Witness ==
    /\ pc = "cl_loop"
    /\ \E i \in 1..Len(visit_order) :
        /\ i < Len(visit_order)
        /\ visit_order[i] = visit_order[Len(visit_order)]

\* a pass of the while loop of find_path that does not return
LoopPass == pc = "loop" /\ pc' = "loop"

\* the entries the pass has pushed
Pushed == open_set' \ open_set

\* no g-score grows in the pass, and either one strictly decreases or the
\* heap has lost an entry
Progress ==
    /\ \A c \in Cells(height, width) : g_score'[c] <= g_score[c]
    /\ \/ \E c \in Cells(height, width) : g_score'[c] < g_score[c]
       \/ Cardinality(open_set') < Cardinality(open_set)

\* C27: find_path terminates.  Every pass of the while loop that does not
\* return pushes a cell only after its g-score has strictly decreased, and it
\* either strictly lowers a g-score, raising none, or shortens the heap by the
\* popped entry; the g-scores are sums of step costs over a finite grid and
\* the heap is finite, so only finitely many passes follow one another before
\* the goal is popped or the heap is empty.
C27_Terminates ==
    [][LoopPass => /\ \A e \in Pushed : g_score'[e[2]] < g_score[e[2]]
                   /\ Progress]_vars

\* a search that popped a cell twice, pushed again after an improvement of
\* its g-score, and then returned a path
C27_Witness ==
    /\ pc = "done" /\ height > 0
    /\ result # NoneVal
    /\ \E i, j \in 1..Len(visit_order) : i < j /\ visit_order[i] = visit_order[j]

\* the step from a to b changes the row and the column
Diagonal(a, b) == a[1] # b[1] /\ a[2] # b[2]

\* the two cells a diagonal step from a to b passes between are both blocked
Squeezes(a, b) == BlockedCell(<<b[1], a[2]>>) /\ BlockedCell(<<a[1], b[2]>>)

\* C28: no diagonal step of a path returned by find_path passes between two
\* blocked cells: for a step from (r, c) to (r+dr, c+dc) with dr and dc both
\* non-zero, (r+dr, c) and (r, c+dc) are not both blocked.
C28_NoDiagonalSqueeze ==
    Returned =>
        \A i \in 1..(Len(result) - 1) :
            Diagonal(result[i], result[i + 1]) => ~Squeezes(result[i], result[i + 1])

\* how many times x occurs in the list l
Count(l, x) == Cardinality({ i \in 1..Len(l) : l[i] = x })

\* how many times the request names a product that has a location
Requested(p) == IF p \in DOMAIN prod_locs THEN Count(destinations, p) ELSE 0

\* the loop followed pass by pass ends with the order the handler works with
OrderLoopIsOrderTargets ==
    pc = "ordered" =>
        ordered_targets = OrderTargets(KnownTargets(destinations), start, << >>)

\* C29: the ordering loop terminates, and the visiting order is a permutation
\* of the requested products that have a location.  Every pass of the loop
\* shortens the list of targets left by exactly one, so the loop ends after
\* as many passes as there were targets; when it has ended every product with
\* a location occurs in the order as often as in the request, and a product
\* without a location does not occur.
C29_GreedyPermutation ==
    [][/\ (pc = "order_loop" /\ targets_left # << >>) =>
            /\ Len(targets_left') = Len(targets_left) - 1
            /\ Len(ordered_targets') = Len(ordered_targets) + 1
       /\ pc' = "ordered" =>
            \A p \in ProductIds : Count(ordered_targets', p) = Requested(p)]_vars

\* the loop has ordered a request that names a product twice and a product
\* without a location
C29_Witness ==
    /\ pc = "ordered"
    /\ \E p \in DOMAIN prod_locs : Count(destinations, p) = 2 /\ Count(ordered_targets, p) = 2
    /\ \E p \in ProductIds \ DOMAIN prod_locs : Count(destinations, p) > 0

\* the set the running build is about to publish
NewSet == build_centerline_graph(sections)

\* C30: whatever a reader of CENTERLINE_SET loads, in is_walkable or in
\* find_nearest_centerline_node, at whatever moment of a build, is the complete
\* set published before that build or the complete set of that build, never a
\* set the build is still filling; and the set the build publishes is complete.
C30_NoPartialSet ==
    /\ observed # << >> =>
          LET complete == { previous_set, NewSet }
          IN  \A i \in 1..Len(observed) : observed[i].seen \in complete
    /\ pc = "built" => CENTERLINE_SET = NewSet

\* a reader has loaded the previous set while the build held a partly filled
\* local set, and the new set after the build has published it
C30_Witness ==
    /\ previous_set # NewSet
    /\ \E i, j \in 1..Len(observed) :
        /\ i < j
        /\ observed[i].seen = previous_set
        /\ observed[i].local # {} /\ observed[i].local # NewSet
        /\ observed[j].seen = NewSet

====
